---- MODULE Spec2Model ----
(***************************************************************************)
(* ContextDiff: the response cache (app/services/cache.py) and the diff    *)
(* engine (app/services/diff_engine.py) as state machines.                 *)
(*                                                                         *)
(* A Python str is a sequence of one-character strings, a dict is a        *)
(* record (a key that is absent from the dict is absent from the record's  *)
(* DOMAIN), Optional[x] is <<>> (None) or <<x>>, datetime is an integer    *)
(* number of seconds.                                                      *)
(***************************************************************************)
EXTENDS Integers, Sequences, FiniteSets, TLC

VARIABLES
    cache,        \* ResponseCache._cache: the entries in the dict's order
    hits,         \* ResponseCache.hits
    misses,       \* ResponseCache.misses
    max_size,     \* ResponseCache.max_size
    ttl_seconds,  \* ResponseCache.ttl_seconds
    now,          \* the wall clock that datetime.now() reads
    last,         \* history: the cache operation made last and what it did
    written,      \* history: per triple, the payload and time of its latest
                  \* set, forgotten when the entry under its key is removed
    budget,       \* the number of set calls the cache's client still makes
    proc,         \* per caller of analyze_diff: the requests it still makes
                  \* and where the call it is in stands
    returned      \* history: the results analyze_diff has returned, while
                  \* the entry under the key of their request stays stored

vars == <<cache, hits, misses, max_size, ttl_seconds, now, last, written, budget, proc, returned>>

(***************************************************************************)
(* Bounds of the model.                                                    *)
(***************************************************************************)
MaxSizeArg == 2       \* ResponseCache(max_size = 1..MaxSizeArg) in SpecCache
MaxGets == 1          \* cap on hits + misses in SpecCache
TickSeconds == 1800   \* how far one Tick moves the clock
MaxTicks == 2         \* the clock stops after this many Ticks
MaxSets == 3          \* set calls of one run of SpecCache
EvictSize == 10       \* ResponseCache(max_size = EvictSize) in SpecEvict
MaxEvictSets == 2     \* set calls of one run of SpecEvict
MaxEngineTicks == 3   \* the clock stops after this many Ticks in Spec
\* The two sizes of the chunked path, scaled down from the 4000 and 3000
\* characters of the source so that the similarity ratio of a text that is
\* long enough to be chunked can be computed.
CHUNK_THRESHOLD == 8  \* analyze_diff: CHUNK_THRESHOLD = 4000
max_chunk_size == 6   \* _split_into_chunks: max_chunk_size = 3000

(***************************************************************************)
(* Python built-ins.                                                       *)
(***************************************************************************)
None == <<>>
Some(x) == <<x>>

Max(a, b) == IF a >= b THEN a ELSE b
Min(a, b) == IF a <= b THEN a ELSE b

\* s[start:end] of a str, with Python's treatment of negative and
\* out-of-range bounds.
SliceBound(i, n) == IF i < 0 THEN Max(i + n, 0) ELSE Min(i, n)
Slice(s, start, end) ==
    LET lo == SliceBound(start, Len(s))
        hi == SliceBound(end, Len(s))
    IN IF lo >= hi THEN <<>> ELSE SubSeq(s, lo + 1, hi)

\* s.find(t): the lowest 0-based index at which t occurs in s, or -1.
Find(s, t) ==
    LET at == {i \in 0..(Len(s) - Len(t)) : SubSeq(s, i + 1, i + Len(t)) = t}
    IN IF at = {} THEN -1 ELSE CHOOSE i \in at : \A j \in at : i <= j

\* The sequence s without the positions in drop.
RECURSIVE Without(_, _)
Without(s, drop) ==
    IF s = <<>> THEN <<>>
    ELSE LET rest == Without(Tail(s), {i - 1 : i \in drop \ {1}})
         IN IF 1 \in drop THEN rest ELSE <<Head(s)>> \o rest

\* sep.join(parts)
RECURSIVE join(_, _)
join(sep, parts) ==
    IF parts = <<>> THEN <<>>
    ELSE IF Len(parts) = 1 THEN parts[1]
    ELSE parts[1] \o sep \o join(sep, Tail(parts))

\* text.split(sep) for a non-empty separator
RECURSIVE split(_, _)
split(text, sep) ==
    LET i == Find(text, sep)
    IN IF i = -1 THEN <<text>>
       ELSE <<Slice(text, 0, i)>>
                \o split(Slice(text, i + Len(sep), Len(text)), sep)

\* The characters of the model's strings in the order of their code points.
CodePoints ==
    <<"\n", " ", ".", ":", "A", "B", "C", "D", "E", "F", "G", "H", "I", "J", "K", "L",
      "M", "N", "O", "P", "Q", "R", "S", "T", "U", "V", "W", "X", "Y", "Z",
      "a", "b", "c", "d", "e", "f", "g", "h", "i", "j", "k", "l", "m", "n",
      "o", "p", "q", "r", "s", "t", "u", "v", "w", "x", "y", "z", "|">>
ord(ch) == CHOOSE i \in 1..Len(CodePoints) : CodePoints[i] = ch

\* ch.lower(), ch.upper() of one character
lower_char(ch) ==
    IF ord(ch) >= ord("A") /\ ord(ch) <= ord("Z")
    THEN CodePoints[ord(ch) + (ord("a") - ord("A"))] ELSE ch
upper_char(ch) ==
    IF ord(ch) >= ord("a") /\ ord(ch) <= ord("z")
    THEN CodePoints[ord(ch) - (ord("a") - ord("A"))] ELSE ch

\* s.lower(), s.upper(), s.strip()
lower(s) == [i \in 1..Len(s) |-> lower_char(s[i])]
upper(s) == [i \in 1..Len(s) |-> upper_char(s[i])]
isspace(ch) == ch \in {" ", "\n"}
RECURSIVE strip(_)
strip(s) ==
    IF s = <<>> THEN s
    ELSE IF isspace(Head(s)) THEN strip(Tail(s))
    ELSE IF isspace(s[Len(s)]) THEN strip(SubSeq(s, 1, Len(s) - 1))
    ELSE s

\* a > b of two str: the comparison of Python, by code points
RECURSIVE str_gt(_, _)
str_gt(a, b) ==
    IF a = <<>> THEN FALSE
    ELSE IF b = <<>> THEN TRUE
    ELSE IF Head(a) = Head(b) THEN str_gt(Tail(a), Tail(b))
    ELSE ord(Head(a)) > ord(Head(b))

\* d.get(k, default) and "k in d" of a dict
dict_get(d, k, default) == IF k \in DOMAIN d THEN d[k] ELSE default
has_key(d, k) == k \in DOMAIN d

(***************************************************************************)
(* difflib.SequenceMatcher(None, a, b).ratio() for texts of fewer than 200 *)
(* characters, where the autojunk heuristic does not apply.                *)
(***************************************************************************)
\* The length of the common run of a from i and b from j (0-based), inside
\* a[..ahi) and b[..bhi).
RECURSIVE match_run(_, _, _, _, _, _)
match_run(a, b, i, j, ahi, bhi) ==
    IF i < ahi /\ j < bhi /\ a[i + 1] = b[j + 1]
    THEN 1 + match_run(a, b, i + 1, j + 1, ahi, bhi)
    ELSE 0

SetMax(S) == CHOOSE x \in S : \A y \in S : y <= x
SetMin(S) == CHOOSE x \in S : \A y \in S : x <= y

\* SequenceMatcher.find_longest_match: the longest matching block inside
\* a[alo:ahi] and b[blo:bhi]; of the longest ones the one that starts
\* earliest in a, and of those the one that starts earliest in b.
find_longest_match(a, b, alo, ahi, blo, bhi) ==
    LET runs == [i \in alo..(ahi - 1) |->
                    [j \in blo..(bhi - 1) |-> match_run(a, b, i, j, ahi, bhi)]]
        sizes == {runs[i][j] : i \in alo..(ahi - 1), j \in blo..(bhi - 1)}
        k == IF sizes = {} THEN 0 ELSE SetMax(sizes)
        besti == SetMin({i \in alo..(ahi - 1) :
                            \E j \in blo..(bhi - 1) : runs[i][j] = k})
        bestj == SetMin({j \in blo..(bhi - 1) : runs[besti][j] = k})
    IN IF k = 0 THEN [i |-> alo, j |-> blo, size |-> 0]
       ELSE [i |-> besti, j |-> bestj, size |-> k]

\* The sum of the sizes of SequenceMatcher.get_matching_blocks(): the longest
\* match, then the same to its left and to its right.
RECURSIVE matches(_, _, _, _, _, _)
matches(a, b, alo, ahi, blo, bhi) ==
    LET m == find_longest_match(a, b, alo, ahi, blo, bhi)
    IN IF m.size = 0 THEN 0
       ELSE m.size
            + (IF alo < m.i /\ blo < m.j
               THEN matches(a, b, alo, m.i, blo, m.j) ELSE 0)
            + (IF m.i + m.size < ahi /\ m.j + m.size < bhi
               THEN matches(a, b, m.i + m.size, ahi, m.j + m.size, bhi) ELSE 0)

\* ratio() = 2.0 * matches / (len(a) + len(b)), 1.0 for two empty texts, as
\* the fraction [num, den].
ratio(a, b) ==
    IF Len(a) + Len(b) = 0 THEN [num |-> 1, den |-> 1]
    ELSE [num |-> 2 * matches(a, b, 0, Len(a), 0, Len(b)),
          den |-> Len(a) + Len(b)]

\* settings.SHORT_CIRCUIT_THRESHOLD = 0.96, in hundredths
SHORT_CIRCUIT_THRESHOLD == 96

\* similarity_ratio > settings.SHORT_CIRCUIT_THRESHOLD
exceeds_threshold(r) == r.num * 100 > SHORT_CIRCUIT_THRESHOLD * r.den

(***************************************************************************)
(* app/models.py.  A model object is the record of its fields; of          *)
(* ChangeItem the fields id, description and reasoning, which no decision  *)
(* of the engine reads, are left out (a reply is taken to carry a valid    *)
(* description and reasoning).  Validation takes the dict parsed from JSON *)
(* with values of the declared JSON types; Pydantic's coercion of other    *)
(* types is not modelled.                                                  *)
(***************************************************************************)
FACTUAL == <<"F", "A", "C", "T", "U", "A", "L">>
TONE == <<"T", "O", "N", "E">>
OMISSION == <<"O", "M", "I", "S", "S", "I", "O", "N">>
ADDITION == <<"A", "D", "D", "I", "T", "I", "O", "N">>
FORMATTING == <<"F", "O", "R", "M", "A", "T", "T", "I", "N", "G">>
ChangeType == {FACTUAL, TONE, OMISSION, ADDITION, FORMATTING}

INFO == <<"i", "n", "f", "o">>
WARNING == <<"w", "a", "r", "n", "i", "n", "g">>
CRITICAL == <<"c", "r", "i", "t", "i", "c", "a", "l">>
ChangeSeverity == {INFO, WARNING, CRITICAL}

Level_NONE == <<"N", "O", "N", "E">>
Level_MINOR == <<"M", "I", "N", "O", "R">>
Level_MODERATE == <<"M", "O", "D", "E", "R", "A", "T", "E">>
Level_CRITICAL == <<"C", "R", "I", "T", "I", "C", "A", "L">>
Level_FATAL == <<"F", "A", "T", "A", "L">>
SemanticChangeLevel ==
    {Level_NONE, Level_MINOR, Level_MODERATE, Level_CRITICAL, Level_FATAL}

\* A faulty variant of severity_map: the value is taken as it is
severity_map_as_given(severity_lower) == severity_lower

\* severity_map.get(severity_lower, 'warning')
severity_map(severity_lower) ==
    IF severity_lower \in {<<"m", "i", "n", "o", "r">>, <<"l", "o", "w">>,
                           <<"n", "o", "n", "e">>, INFO}
    THEN INFO
    ELSE IF severity_lower \in {<<"m", "o", "d", "e", "r", "a", "t", "e">>,
                                <<"m", "e", "d", "i", "u", "m">>, WARNING}
    THEN WARNING
    ELSE IF severity_lower \in {<<"h", "i", "g", "h">>,
                                <<"f", "a", "t", "a", "l">>,
                                <<"s", "e", "v", "e", "r", "e">>, CRITICAL}
    THEN CRITICAL
    ELSE WARNING

\* ChangeItem.normalize_fields: the values with type and severity replaced
\* where they are present and not empty.
normalize_fields(values) ==
    [k \in DOMAIN values |->
        IF k = "type" /\ values[k] # <<>> THEN upper(values[k])
        ELSE IF k = "severity" /\ values[k] # <<>>
        THEN severity_map(strip(lower(values[k])))
        ELSE values[k]]

\* Whether TextSpan(**span) validates
TextSpan_valid(span) ==
    /\ has_key(span, "text")
    /\ has_key(span, "start") /\ span.start >= 0
    /\ has_key(span, "end") /\ span.end >= 0
    /\ span.end >= span.start

TextSpan(span) ==
    [text |-> span.text, start |-> span.start, end |-> span.end,
     context_before |-> dict_get(span, "context_before", <<>>),
     context_after |-> dict_get(span, "context_after", <<>>)]

\* Whether ChangeItem(**values) validates
ChangeItem_valid(values) ==
    LET v == normalize_fields(values)
    IN /\ has_key(v, "type") /\ v.type \in ChangeType
       /\ has_key(v, "severity") /\ v.severity \in ChangeSeverity
       /\ has_key(v, "original_span") /\ TextSpan_valid(v.original_span)
       /\ has_key(v, "generated_span") /\ TextSpan_valid(v.generated_span)

ChangeItem(values) ==
    LET v == normalize_fields(values)
    IN [type |-> v.type, severity |-> v.severity,
        original_span |-> TextSpan(v.original_span),
        generated_span |-> TextSpan(v.generated_span)]

\* Whether DiffSummary(**values) validates
DiffSummary_valid(values) ==
    /\ has_key(values, "is_safe") /\ values.is_safe \in BOOLEAN
    /\ has_key(values, "risk_score")
    /\ values.risk_score >= 0 /\ values.risk_score <= 100
    /\ has_key(values, "semantic_change_level")
    /\ values.semantic_change_level \in SemanticChangeLevel

DiffSummary(values) ==
    [is_safe |-> values.is_safe, risk_score |-> values.risk_score,
     semantic_change_level |-> values.semantic_change_level]

\* Whether DiffResponse(**data) validates
DiffResponse_valid(data) ==
    /\ has_key(data, "summary") /\ DiffSummary_valid(data.summary)
    /\ has_key(data, "changes") =>
           \A i \in 1..Len(data.changes) : ChangeItem_valid(data.changes[i])

DiffResponse(data) ==
    [summary |-> DiffSummary(data.summary),
     changes |-> IF has_key(data, "changes")
                 THEN [i \in 1..Len(data.changes) |-> ChangeItem(data.changes[i])]
                 ELSE <<>>]

\* Whether CompareRequest(...) validates (min_length, max_length)
CompareRequest_valid(original_text, generated_text) ==
    /\ Len(original_text) >= 1 /\ Len(original_text) <= 50000
    /\ Len(generated_text) >= 1 /\ Len(generated_text) <= 50000

(***************************************************************************)
(* ChangeItem on its own: the dict of one change, as the oracle may write  *)
(* its type and severity, is validated.                                    *)
(***************************************************************************)
\* The keys of severity_map and words that are none of them
SeverityWords ==
    {<<"m", "i", "n", "o", "r">>, <<"l", "o", "w">>, <<"n", "o", "n", "e">>,
     <<"m", "o", "d", "e", "r", "a", "t", "e">>,
     <<"m", "e", "d", "i", "u", "m">>, <<"h", "i", "g", "h">>,
     <<"f", "a", "t", "a", "l">>, <<"s", "e", "v", "e", "r", "e">>,
     INFO, WARNING, CRITICAL,
     <<"u", "r", "g", "e", "n", "t">>, <<"l", "o", "w", "e", "r">>,
     <<"h", "i", " ", "g", "h">>, <<"x">>}

\* word as the oracle may write it: in lower case, in upper case or
\* capitalised, and with or without white space around it
Written(word, case, padded) ==
    LET cased == IF case = "upper" THEN upper(word)
                 ELSE IF case = "capital"
                 THEN <<upper_char(Head(word))>> \o Tail(word)
                 ELSE word
    IN IF padded THEN <<" ">> \o cased \o <<" ", "\n">> ELSE cased

TypesWritten ==
    {FACTUAL, <<"F", "a", "c", "t", "u", "a", "l">>, <<"t", "o", "n", "e">>,
     <<"S", "T", "Y", "L", "E">>}

InitChange ==
    /\ cache = <<>>
    /\ hits = 0
    /\ misses = 0
    /\ max_size = 1000
    /\ ttl_seconds = 3600
    /\ now = 0
    /\ \E word \in SeverityWords, case \in {"lower", "upper", "capital"},
          padded \in BOOLEAN, type \in TypesWritten :
           last = [name |-> "ChangeItem", word |-> word,
                   values |-> [type |-> type,
                               severity |-> Written(word, case, padded),
                               original_span |->
                                   [text |-> <<"c">>, start |-> 2, end |-> 3],
                               generated_span |->
                                   [text |-> <<"x">>, start |-> 2, end |-> 3]],
                   validated |-> FALSE, is_valid |-> FALSE, item |-> None]
    /\ written = {}
    /\ budget = 0
    /\ proc = <<>>
    /\ returned = {}

\* ChangeItem(**values)
ValidateChange ==
    /\ ~last.validated
    /\ last' = [last EXCEPT !.validated = TRUE,
                   !.is_valid = ChangeItem_valid(last.values),
                   !.item = IF ChangeItem_valid(last.values)
                            THEN Some(ChangeItem(last.values)) ELSE None]
    /\ UNCHANGED <<cache, hits, misses, max_size, ttl_seconds, now, written,
                   budget, proc, returned>>

NextChange == ValidateChange

SpecChange == InitChange /\ [][NextChange]_vars

(***************************************************************************)
(* DiffEngine: span reconciliation                                         *)
(***************************************************************************)
\* A faulty variant of context_start: the index of the fingerprint itself
context_start_at_match(found_index, context_before) == found_index

\* new_start of the context fingerprint phase
context_start(found_index, context_before) == found_index + Len(context_before)

\* A faulty variant of exact_match: the claimed offsets are never trusted
exact_match_never(source_text, start, end, text) == FALSE

\* Phase 1: source_text[start:end] == text
exact_match(source_text, start, end, text) ==
    Slice(source_text, start, end) = text

\* A faulty variant of has_context: both windows are required
has_context_both(context_before, context_after) ==
    context_before # <<>> /\ context_after # <<>>

\* Phase 2 is tried: if context_before or context_after
has_context(context_before, context_after) ==
    context_before # <<>> \/ context_after # <<>>

\* A faulty variant of global_find: no search beyond the window
global_find_never(source_text, text) == -1

\* Phase 4: source_text.find(text)
global_find(source_text, text) == Find(source_text, text)

\* A faulty variant of window_start: the window begins at the start of the
\* source
window_from_zero(start) == 0

\* Phase 3: search_start = max(0, start - 50)
window_start(start) == Max(0, start - 50)

\* DiffEngine._validate_single_span: [is_valid, corrected, span], span being
\* the dict after the call
validate_single_span(span, source_text) ==
    LET text == dict_get(span, "text", <<>>)
        context_before == dict_get(span, "context_before", <<>>)
        context_after == dict_get(span, "context_after", <<>>)
        unchanged(ok) == [is_valid |-> ok, corrected |-> FALSE, span |-> span]
        moved(new_start) ==
            [is_valid |-> TRUE, corrected |-> TRUE,
             span |-> [k \in DOMAIN span |->
                          IF k = "start" THEN new_start
                          ELSE IF k = "end" THEN new_start + Len(text)
                          ELSE span[k]]]
    IN IF text = <<>> \/ ~has_key(span, "start") \/ ~has_key(span, "end")
       THEN unchanged(TRUE)
       ELSE LET start == span.start
                end == span.end
                fingerprint == context_before \o text \o context_after
                found_index == Find(source_text, fingerprint)
                search_start == window_start(start)
                search_end == Min(Len(source_text), end + 50)
                search_region == Slice(source_text, search_start, search_end)
                local_index == Find(search_region, text)
                global_index == global_find(source_text, text)
            IN IF exact_match(source_text, start, end, text)
               THEN unchanged(TRUE)
               ELSE IF has_context(context_before, context_after)
                       /\ found_index # -1
               THEN moved(context_start(found_index, context_before))
               ELSE IF local_index # -1
               THEN moved(search_start + local_index)
               ELSE IF global_index # -1
               THEN moved(global_index)
               ELSE unchanged(FALSE)

\* One pass of the loop of _validate_and_fix_spans: [is_valid, change]
validate_change(change, original_text, generated_text) ==
    LET has_original == has_key(change, "original_span")
                        /\ DOMAIN change.original_span # {}
        o == IF has_original
             THEN validate_single_span(change.original_span, original_text)
             ELSE [is_valid |-> TRUE, corrected |-> FALSE, span |-> <<>>]
        change1 == IF has_original
                   THEN [change EXCEPT !.original_span = o.span] ELSE change
        has_generated == o.is_valid /\ has_key(change, "generated_span")
                         /\ DOMAIN change.generated_span # {}
        g == IF has_generated
             THEN validate_single_span(change.generated_span, generated_text)
             ELSE [is_valid |-> o.is_valid, corrected |-> FALSE, span |-> <<>>]
    IN [is_valid |-> g.is_valid,
        change |-> IF has_generated
                   THEN [change1 EXCEPT !.generated_span = g.span] ELSE change1]

\* A faulty variant of valid_changes: every change is kept
valid_changes_all(changes, original_text, generated_text) ==
    [i \in 1..Len(changes) |->
        validate_change(changes[i], original_text, generated_text).change]

\* DiffEngine._validate_and_fix_spans
RECURSIVE valid_changes(_, _, _)
valid_changes(changes, original_text, generated_text) ==
    IF changes = <<>> THEN <<>>
    ELSE LET v == validate_change(Head(changes), original_text, generated_text)
             rest == valid_changes(Tail(changes), original_text, generated_text)
         IN IF v.is_valid THEN <<v.change>> \o rest ELSE rest

validate_and_fix_spans(response_data, original_text, generated_text) ==
    IF ~has_key(response_data, "changes") THEN response_data
    ELSE [response_data EXCEPT
             !.changes = valid_changes(response_data.changes, original_text,
                                       generated_text)]

(***************************************************************************)
(* The reconciler on its own: one claimed span of one source text, passed  *)
(* to _validate_single_span again for as long as it is accepted.           *)
(***************************************************************************)
MaxPasses == 2

cat_text ==
    <<"t", "h", "e", " ", "c", "a", "t", " ", "s", "a", "t", " ", "o", "n",
      " ", "t", "h", "e", " ", "c", "a", "t", " ", "m", "a", "t">>

\* 'cat', 57 blanks, 'cat': the second 'cat' is farther than 50 characters
\* from the first
far_text ==
    [i \in 1..63 |-> IF i \in {1, 61} THEN "c"
                     ELSE IF i \in {2, 62} THEN "a"
                     ELSE IF i \in {3, 63} THEN "t" ELSE " "]

SpanSources == {cat_text, <<"a", "b", "c", "a", "b">>, far_text}
SpanTexts == {<<"c", "a", "t">>, <<"a", "b">>, <<"z">>, <<>>}
SpanContexts == {<<>>, <<" ", "m", "a", "t">>, <<"e", " ">>, <<"c">>, <<" ">>}
SpanStarts == {-1, 0, 3, 4, 19, 20, 75}
SpanEnds == {2, 5, 7, 22, 23, 78}

\* The dicts the oracle may give as a span
ClaimedSpans ==
    {[text |-> t, start |-> s, end |-> e, context_before |-> b,
      context_after |-> a] :
        t \in SpanTexts, s \in SpanStarts, e \in SpanEnds,
        b \in SpanContexts, a \in SpanContexts}
    \cup {[text |-> t, start |-> s, end |-> e] :
             t \in SpanTexts, s \in SpanStarts, e \in SpanEnds}
    \cup {[text |-> t, context_after |-> a] :
             t \in SpanTexts, a \in SpanContexts}

InitSpan ==
    /\ cache = <<>>
    /\ hits = 0
    /\ misses = 0
    /\ max_size = 1000
    /\ ttl_seconds = 3600
    /\ now = 0
    /\ \E source_text \in SpanSources, claimed \in ClaimedSpans :
           last = [name |-> "validate_single_span",
                   source_text |-> source_text, claimed |-> claimed,
                   given |-> claimed, span |-> claimed, is_valid |-> TRUE,
                   corrected |-> FALSE, passes |-> 0]
    /\ written = {}
    /\ budget = 0
    /\ proc = <<>>
    /\ returned = {}

\* One call of _validate_single_span on the span as the call before left it
ValidateSpan ==
    LET r == validate_single_span(last.span, last.source_text)
    IN /\ last.passes < MaxPasses
       /\ last.is_valid
       /\ last' = [last EXCEPT !.given = last.span, !.span = r.span,
                               !.is_valid = r.is_valid,
                               !.corrected = r.corrected,
                               !.passes = last.passes + 1]
       /\ UNCHANGED <<cache, hits, misses, max_size, ttl_seconds, now,
                      written, budget, proc, returned>>

NextSpan == ValidateSpan

SpecSpan == InitSpan /\ [][NextSpan]_vars

(***************************************************************************)
(* DiffEngine: response validation and the consistency check               *)
(***************************************************************************)
\* any(change.severity == "critical" for change in changes)
has_critical_changes(changes) ==
    \E i \in 1..Len(changes) : changes[i].severity = CRITICAL

high_risk(risk_score) == risk_score > 40

\* A faulty variant of consistency_check: the oracle's is_safe is kept
consistency_check_trusting(is_safe, critical, risky) == is_safe

\* is_safe after the consistency check of _validate_and_build_response
consistency_check(is_safe, critical, risky) ==
    IF (critical \/ risky) /\ is_safe THEN FALSE ELSE is_safe

\* DiffEngine._validate_and_build_response: None for LLMResponseError
validate_and_build_response(response_data) ==
    IF ~DiffResponse_valid(response_data) THEN None
    ELSE LET diff_response == DiffResponse(response_data)
         IN Some([diff_response EXCEPT
                     !.summary.is_safe =
                         consistency_check(
                             diff_response.summary.is_safe,
                             has_critical_changes(diff_response.changes),
                             high_risk(diff_response.summary.risk_score))])

(***************************************************************************)
(* ResponseCache                                                           *)
(***************************************************************************)
\* hashlib.sha256(x).hexdigest(): a digest that differs for different inputs
\* (SHA-256 without its collisions).
sha256_hexdigest(cache_input) == <<"sha256", cache_input>>

generate_key(original_text, generated_text, sensitivity) ==
    LET cache_input ==
            original_text \o <<"|">> \o generated_text \o <<"|">> \o sensitivity
    IN sha256_hexdigest(cache_input)

\* The position of cache_key in the dict, 0 when it is not a key.
KeyIndex(c, cache_key) ==
    IF \E i \in 1..Len(c) : c[i].key = cache_key
    THEN CHOOSE i \in 1..Len(c) : c[i].key = cache_key
    ELSE 0

CacheKeys(c) == {c[i].key : i \in 1..Len(c)}

\* A faulty variant of IsExpired: the comparison reversed
IsExpired_reversed(entry, t) == t < entry.expires_at

\* datetime.now() > entry["expires_at"]
IsExpired(entry, t) == t > entry.expires_at

\* A faulty variant of remove_count: one entry whatever the size
remove_count_one(n) == 1

\* remove_count = max(1, len(sorted_entries) // 5)
remove_count(n) == Max(1, n \div 5)

\* sorted(self._cache.items(), key=created_at)[:count]: the positions of the
\* count entries that a stable sort by created_at puts first.
OldestIndexes(c, count) ==
    {i \in 1..Len(c) :
        Cardinality({j \in 1..Len(c) :
            \/ c[j].created_at < c[i].created_at
            \/ c[j].created_at = c[i].created_at /\ j < i}) < count}

\* ResponseCache._cleanup: [cache, expired_keys, oldest_keys]
cleanup(c, size_limit, t) ==
    LET expired == {i \in 1..Len(c) : IsExpired(c[i], t)}
        c1 == Without(c, expired)
        oldest == IF Len(c1) >= size_limit
                  THEN OldestIndexes(c1, remove_count(Len(c1)))
                  ELSE {}
    IN [cache |-> Without(c1, oldest),
        expired_keys |-> {c[i].key : i \in expired},
        oldest_keys |-> {c1[i].key : i \in oldest}]

\* A faulty variant of cache_get: a hit renews the entry's created_at
cache_get_lru(c, h, m, t, original_text, generated_text, sensitivity) ==
    LET cache_key == generate_key(original_text, generated_text, sensitivity)
        i == KeyIndex(c, cache_key)
    IN IF i = 0
       THEN [cache |-> c, hits |-> h, misses |-> m + 1, value |-> None]
       ELSE IF IsExpired(c[i], t)
       THEN [cache |-> Without(c, {i}), hits |-> h, misses |-> m + 1,
             value |-> None]
       ELSE [cache |-> [c EXCEPT ![i].created_at = t], hits |-> h + 1,
             misses |-> m, value |-> Some(c[i].data)]

\* ResponseCache.get: [cache, hits, misses, value], value None or Some(data)
cache_get(c, h, m, t, original_text, generated_text, sensitivity) ==
    LET cache_key == generate_key(original_text, generated_text, sensitivity)
        i == KeyIndex(c, cache_key)
    IN IF i = 0
       THEN [cache |-> c, hits |-> h, misses |-> m + 1, value |-> None]
       ELSE IF IsExpired(c[i], t)
       THEN [cache |-> Without(c, {i}), hits |-> h, misses |-> m + 1,
             value |-> None]
       ELSE [cache |-> c, hits |-> h + 1, misses |-> m, value |-> Some(c[i].data)]

\* A faulty variant of NeedsCleanup: cleanup only above max_size
NeedsCleanup_late(c, size_limit) == Len(c) > size_limit

\* Whether set runs _cleanup: len(self._cache) >= self.max_size
NeedsCleanup(c, size_limit) == Len(c) >= size_limit

\* ResponseCache.set: [cache, expired_keys, oldest_keys]
cache_set(c, size_limit, ttl, t, original_text, generated_text, sensitivity, response_data) ==
    LET cl == IF NeedsCleanup(c, size_limit)
              THEN cleanup(c, size_limit, t)
              ELSE [cache |-> c, expired_keys |-> {}, oldest_keys |-> {}]
        cache_key == generate_key(original_text, generated_text, sensitivity)
        entry == [key |-> cache_key, data |-> response_data,
                  expires_at |-> t + ttl, created_at |-> t]
        i == KeyIndex(cl.cache, cache_key)
    IN [cache |-> IF i = 0 THEN Append(cl.cache, entry)
                  ELSE [cl.cache EXCEPT ![i] = entry],
        expired_keys |-> cl.expired_keys,
        oldest_keys |-> cl.oldest_keys]

(***************************************************************************)
(* The cache on its own: a client calls get, set and clear while time      *)
(* passes.                                                                 *)
(***************************************************************************)
\* The (original_text, generated_text, sensitivity) triples the client uses:
\* the first two differ in both texts, the third differs from the second in
\* generated_text alone, the fourth from the third in sensitivity alone.
CacheTriples ==
    {<<<<"a", "|", "a">>, <<"a">>, <<"l", "o", "w">>>>,
     <<<<"a">>, <<"a", "|", "a">>, <<"l", "o", "w">>>>,
     <<<<"a">>, <<"a">>, <<"l", "o", "w">>>>,
     <<<<"a">>, <<"a">>, <<"h", "i", "g", "h">>>>}
CachePayloads == {"r1", "r2"}

KeyOf(k) == generate_key(k[1], k[2], k[3])

\* found: what get met under the key ("absent", "expired": an entry whose
\* expires_at the clock has passed, "live"); misses0: misses before the get.
NoOp == [name |-> "none", args |-> <<>>, value |-> None, found |-> "absent",
         misses0 |-> 0, expired_keys |-> {}, oldest_keys |-> {}]

\* written once the entries under the keys in gone have left the map
Forget(w, gone) == {x \in w : KeyOf(x.args) \notin gone}

InitCache ==
    /\ cache = <<>>
    /\ hits = 0
    /\ misses = 0
    /\ max_size \in 1..MaxSizeArg
    /\ ttl_seconds = TickSeconds
    /\ now = 0
    /\ last = NoOp
    /\ written = {}
    /\ budget = MaxSets
    /\ proc = <<>>
    /\ returned = {}

Get(a, b, s) ==
    LET r == cache_get(cache, hits, misses, now, a, b, s)
        i == KeyIndex(cache, generate_key(a, b, s))
    IN /\ hits + misses < MaxGets
       /\ cache' = r.cache
       /\ hits' = r.hits
       /\ misses' = r.misses
       /\ last' = [NoOp EXCEPT !.name = "get", !.args = <<a, b, s>>,
                               !.value = r.value,
                               !.found = IF i = 0 THEN "absent"
                                         ELSE IF now > cache[i].expires_at
                                         THEN "expired" ELSE "live",
                               !.misses0 = misses]
       /\ written' = Forget(written, CacheKeys(cache) \ CacheKeys(r.cache))
       /\ UNCHANGED <<max_size, ttl_seconds, now, budget, proc, returned>>

Set(a, b, s, data) ==
    LET r == cache_set(cache, max_size, ttl_seconds, now, a, b, s, data)
    IN /\ budget > 0
       /\ budget' = budget - 1
       /\ cache' = r.cache
       /\ last' = [NoOp EXCEPT !.name = "set", !.args = <<a, b, s>>,
                               !.expired_keys = r.expired_keys,
                               !.oldest_keys = r.oldest_keys]
       /\ written' =
              {x \in Forget(written, r.expired_keys \cup r.oldest_keys) :
                  x.args # <<a, b, s>>}
              \cup {[args |-> <<a, b, s>>, data |-> data, at |-> now]}
       /\ UNCHANGED <<hits, misses, max_size, ttl_seconds, now, proc, returned>>

\* ResponseCache.clear
Clear ==
    /\ cache' = <<>>
    /\ hits' = 0
    /\ misses' = 0
    /\ last' = [NoOp EXCEPT !.name = "clear"]
    /\ written' = {}
    /\ returned' = {}
    /\ UNCHANGED <<max_size, ttl_seconds, now, budget, proc>>

\* TickSeconds pass, at most ticks times
Tick(ticks) ==
    /\ now + TickSeconds <= ticks * TickSeconds
    /\ now' = now + TickSeconds
    /\ UNCHANGED <<cache, hits, misses, max_size, ttl_seconds, last, written,
                   budget, proc, returned>>

NextCache ==
    \/ \E k \in CacheTriples : Get(k[1], k[2], k[3])
    \/ \E k \in CacheTriples, data \in CachePayloads : Set(k[1], k[2], k[3], data)
    \/ Clear
    \/ Tick(MaxTicks)

SpecCache == InitCache /\ [][NextCache]_vars

(***************************************************************************)
(* The cache at a capacity where 20% is more than one entry: the run       *)
(* starts from a cache that n earlier set calls have filled, the first j   *)
(* of them one Tick before the others.                                     *)
(***************************************************************************)
RECURSIVE Repeat(_, _)
Repeat(ch, n) == IF n = 0 THEN <<>> ELSE <<ch>> \o Repeat(ch, n - 1)

EvictTriple(i) == <<Repeat("a", i), <<"a">>, <<"l", "o", "w">>>>

RECURSIVE Prefill(_, _)
Prefill(n, j) ==
    IF n = 0 THEN <<>>
    ELSE cache_set(Prefill(n - 1, j), EvictSize, TickSeconds,
                   IF n <= j THEN 0 ELSE TickSeconds,
                   EvictTriple(n)[1], EvictTriple(n)[2], EvictTriple(n)[3],
                   "r1").cache

\* The triples the client uses after that: the first one set, the last one
\* that fits and one that was never set.
EvictTriples == {EvictTriple(1), EvictTriple(EvictSize), EvictTriple(EvictSize + 1)}

InitEvict ==
    /\ \E n \in 0..EvictSize : \E j \in 0..n : cache = Prefill(n, j)
    /\ hits = 0
    /\ misses = 0
    /\ max_size = EvictSize
    /\ ttl_seconds = TickSeconds
    /\ now = TickSeconds
    /\ last = NoOp
    /\ written = {}
    /\ budget = MaxEvictSets
    /\ proc = <<>>
    /\ returned = {}

NextEvict ==
    \/ \E k \in EvictTriples : Get(k[1], k[2], k[3])
    \/ \E k \in EvictTriples : Set(k[1], k[2], k[3], "r1")
    \/ Clear
    \/ Tick(MaxTicks)

SpecEvict == InitEvict /\ [][NextEvict]_vars

(***************************************************************************)
(* The cache under the tasks of one event loop: each task calls get, set   *)
(* or clear; a task gives way to another only where the method it runs     *)
(* awaits.                                                                 *)
(***************************************************************************)
MaxCacheCalls == 4

CacheTasks == {1, 2}

\* A faulty variant of cache_awaits: set awaits between collecting the
\* expired keys and deleting them
cache_awaits_in_cleanup(name) == IF name = "set" THEN 1 ELSE 0

\* The number of await expressions in the method of ResponseCache: get, set,
\* _cleanup and clear are plain functions
cache_awaits(name) == 0

\* expired_keys of _cleanup when set runs it
expired_keys_of(c, size_limit, t) ==
    IF NeedsCleanup(c, size_limit)
    THEN {c[i].key : i \in {j \in 1..Len(c) : IsExpired(c[j], t)}}
    ELSE {}

TaskIdle == [pc |-> "idle", name |-> "none", args |-> <<>>, awaited |-> 0,
             expired_keys |-> {}]

InitTasks ==
    /\ cache = <<>>
    /\ hits = 0
    /\ misses = 0
    /\ max_size \in 1..MaxSizeArg
    /\ ttl_seconds = TickSeconds
    /\ now = 0
    /\ last = NoOp
    /\ written = {}
    /\ budget = MaxCacheCalls
    /\ proc = [t \in CacheTasks |-> TaskIdle]
    /\ returned = {}

\* The task reaches a call of a method of the cache
CallCache(t, name, k) ==
    /\ proc[t].pc = "idle"
    /\ budget > 0
    /\ budget' = budget - 1
    /\ proc' = [proc EXCEPT ![t] =
                   [TaskIdle EXCEPT !.pc = "calling", !.name = name,
                                    !.args = k]]
    /\ UNCHANGED <<cache, hits, misses, max_size, ttl_seconds, now, last,
                   written, returned>>

\* The task runs the method up to its next await, or to its end.  del of a
\* key that is not in the dict raises KeyError.
RunCache(t) ==
    LET self == proc[t]
        k == self.args
        got == cache_get(cache, hits, misses, now, k[1], k[2], k[3])
        stored == cache_set(cache, max_size, ttl_seconds, now, k[1], k[2],
                            k[3], "r1")
    IN /\ self.pc = "calling"
       /\ IF self.awaited < cache_awaits(self.name)
          THEN /\ proc' = [proc EXCEPT ![t] =
                     [self EXCEPT !.awaited = @ + 1,
                         !.expired_keys =
                             expired_keys_of(cache, max_size, now)]]
               /\ UNCHANGED <<cache, hits, misses>>
          ELSE IF self.name = "get"
          THEN /\ cache' = got.cache
               /\ hits' = got.hits
               /\ misses' = got.misses
               /\ proc' = [proc EXCEPT ![t] = TaskIdle]
          ELSE IF self.name = "clear"
          THEN /\ cache' = <<>>
               /\ hits' = 0
               /\ misses' = 0
               /\ proc' = [proc EXCEPT ![t] = TaskIdle]
          ELSE IF self.expired_keys \subseteq CacheKeys(cache)
          THEN /\ cache' = stored.cache
               /\ proc' = [proc EXCEPT ![t] = TaskIdle]
               /\ UNCHANGED <<hits, misses>>
          ELSE /\ proc' = [proc EXCEPT ![t] = [self EXCEPT !.pc = "KeyError"]]
               /\ UNCHANGED <<cache, hits, misses>>
       /\ UNCHANGED <<max_size, ttl_seconds, now, last, written, budget,
                      returned>>

NextTasks ==
    \/ \E t \in CacheTasks, name \in {"get", "set", "clear"},
          k \in CacheTriples : CallCache(t, name, k)
    \/ \E t \in CacheTasks : RunCache(t)
    \/ Tick(MaxTicks)

SpecTasks == InitTasks /\ [][NextTasks]_vars

(***************************************************************************)
(* The cache and the dicts it shares with its caller: an entry's "data" is *)
(* a reference to the dict given to set, and get returns that reference.   *)
(* cache[i].data is the identity of a dict, last.heap what each dict holds.*)
(***************************************************************************)
MaxShareCalls == 3

\* The dicts of the caller, by identity
Dicts == {1, 2}
ShareTriples ==
    {<<<<"a">>, <<"a">>, <<"l", "o", "w">>>>,
     <<<<"a">>, <<"a">>, <<"h", "i", "g", "h">>>>}

InitShare ==
    /\ cache = <<>>
    /\ hits = 0
    /\ misses = 0
    /\ max_size = 1000
    /\ ttl_seconds = 3600
    /\ now = 0
    /\ last = [name |-> "none", args |-> <<>>, value |-> None,
               payload |-> None, heap |-> [d \in Dicts |-> "r1"]]
    /\ written = {}
    /\ budget = MaxShareCalls
    /\ proc = <<>>
    /\ returned = {}

\* cache.set(a, b, s, response_data) with the dict d as response_data;
\* written keeps what d held when it was stored
SetDict(a, b, s, d) ==
    LET r == cache_set(cache, max_size, ttl_seconds, now, a, b, s, d)
    IN /\ budget > 0
       /\ budget' = budget - 1
       /\ cache' = r.cache
       /\ last' = [last EXCEPT !.name = "set", !.args = <<a, b, s>>,
                               !.value = None, !.payload = None]
       /\ written' =
              {x \in Forget(written, r.expired_keys \cup r.oldest_keys) :
                  x.args # <<a, b, s>>}
              \cup {[args |-> <<a, b, s>>, data |-> last.heap[d], at |-> now]}
       /\ UNCHANGED <<hits, misses, max_size, ttl_seconds, now, proc, returned>>

\* cache.get(a, b, s): value is the dict returned, payload what it holds
GetDict(a, b, s) ==
    LET r == cache_get(cache, hits, misses, now, a, b, s)
    IN /\ budget > 0
       /\ budget' = budget - 1
       /\ cache' = r.cache
       /\ hits' = r.hits
       /\ misses' = r.misses
       /\ last' = [last EXCEPT !.name = "get", !.args = <<a, b, s>>,
                       !.value = r.value,
                       !.payload = IF r.value = None THEN None
                                   ELSE Some(last.heap[r.value[1]])]
       /\ written' = Forget(written, CacheKeys(cache) \ CacheKeys(r.cache))
       /\ UNCHANGED <<max_size, ttl_seconds, now, proc, returned>>

\* The caller changes a dict it holds: one it gave to set or one get returned
MutateDict(d, data) ==
    /\ data # last.heap[d]
    /\ last' = [last EXCEPT !.name = "mutate", !.args = <<>>, !.value = None,
                            !.payload = None, !.heap[d] = data]
    /\ UNCHANGED <<cache, hits, misses, max_size, ttl_seconds, now, written,
                   budget, proc, returned>>

NextShare ==
    \/ \E k \in ShareTriples, d \in Dicts : SetDict(k[1], k[2], k[3], d)
    \/ \E k \in ShareTriples : GetDict(k[1], k[2], k[3])
    \/ \E d \in Dicts, data \in CachePayloads : MutateDict(d, data)

SpecShare == InitShare /\ [][NextShare]_vars

(***************************************************************************)
(* DiffEngine: chunking                                                    *)
(***************************************************************************)
\* The loop of _split_into_chunks over the paragraphs that are left
RECURSIVE chunk_paragraphs(_, _, _, _, _)
chunk_paragraphs(paragraphs, chunks, current_chunk, current_length, size) ==
    IF paragraphs = <<>>
    THEN IF current_chunk # <<>>
         THEN Append(chunks, join(<<"\n", "\n">>, current_chunk))
         ELSE chunks
    ELSE LET para == Head(paragraphs)
             para_length == Len(para)
         IN IF current_length + para_length > size /\ current_chunk # <<>>
            THEN chunk_paragraphs(Tail(paragraphs),
                     Append(chunks, join(<<"\n", "\n">>, current_chunk)),
                     <<para>>, para_length, size)
            ELSE chunk_paragraphs(Tail(paragraphs), chunks,
                     Append(current_chunk, para),
                     current_length + para_length + 2, size)

\* DiffEngine._split_into_chunks
split_into_chunks(text, size) ==
    IF Len(text) <= size THEN <<text>>
    ELSE chunk_paragraphs(split(text, <<"\n", "\n">>), <<>>, <<>>, 0, size)

\* chunks padded with "" up to n chunks
pad_chunks(chunks, n) ==
    [i \in 1..n |-> IF i <= Len(chunks) THEN chunks[i] ELSE <<>>]

\* A faulty variant of chunk_offsets: the separators are not counted
RECURSIVE chunk_offsets_unseparated(_)
chunk_offsets_unseparated(original_chunks) ==
    IF Len(original_chunks) <= 1 THEN <<0>>
    ELSE LET front == SubSeq(original_chunks, 1, Len(original_chunks) - 1)
             before == chunk_offsets_unseparated(front)
         IN Append(before, before[Len(before)] + Len(front[Len(front)]))

\* offsets of _merge_chunk_results: 0, then per chunk but the last the
\* offset before it plus its length plus 2
RECURSIVE chunk_offsets(_)
chunk_offsets(original_chunks) ==
    IF Len(original_chunks) <= 1 THEN <<0>>
    ELSE LET front == SubSeq(original_chunks, 1, Len(original_chunks) - 1)
             before == chunk_offsets(front)
         IN Append(before, before[Len(before)] + Len(front[Len(front)]) + 2)

shift_span(span, offset) ==
    [span EXCEPT !.start = @ + offset, !.end = @ + offset]

shift_change(change, offset) ==
    [change EXCEPT !.original_span = shift_span(@, offset),
                   !.generated_span = shift_span(@, offset)]

\* The loop of _merge_chunk_results over chunk_results from position
\* chunk_idx (0-based): [changes, total, level]
RECURSIVE merge_loop(_, _, _, _)
merge_loop(chunk_results, offsets, chunk_idx, acc) ==
    IF chunk_idx >= Len(chunk_results) THEN acc
    ELSE LET result == chunk_results[chunk_idx + 1]
             offset == IF chunk_idx < Len(offsets) THEN offsets[chunk_idx + 1]
                       ELSE 0
             shifted == [i \in 1..Len(result.changes) |->
                            shift_change(result.changes[i], offset)]
             level == result.summary.semantic_change_level
         IN merge_loop(chunk_results, offsets, chunk_idx + 1,
                [changes |-> acc.changes \o shifted,
                 total |-> acc.total + result.summary.risk_score,
                 level |-> IF str_gt(level, acc.level) THEN level
                           ELSE acc.level])

\* A faulty variant of merge_chunk_results: the result of the first chunk
\* stands for all
merge_chunk_results_first(chunk_results, original_chunks) == chunk_results[1]

\* DiffEngine._merge_chunk_results.  No element of chunk_results is an
\* exception: _analyze_single_chunk turns every failure into a response.
merge_chunk_results(chunk_results, original_chunks) ==
    LET m == merge_loop(chunk_results, chunk_offsets(original_chunks), 0,
                        [changes |-> <<>>, total |-> 0, level |-> Level_NONE])
        valid_chunks == Len(chunk_results)
        avg_risk_score == IF valid_chunks > 0 THEN m.total \div valid_chunks
                          ELSE 0
        has_critical == has_critical_changes(m.changes)
    IN [summary |-> [is_safe |-> avg_risk_score <= 40 /\ ~has_critical,
                     risk_score |-> Min(100, avg_risk_score),
                     semantic_change_level |-> m.level],
        changes |-> m.changes]

\* A faulty variant of model_dump: the dict holds the spans of the response
\* themselves
model_dump_shared(diff_response) == [data |-> diff_response, shares |-> TRUE]

\* diff_response.model_dump(): the response as dicts built anew, data, none
\* of which is an object of the response (shares)
model_dump(diff_response) == [data |-> diff_response, shares |-> FALSE]

\* The cache once _merge_chunk_results has added the offsets to the spans of
\* the results in place: an entry whose dict shares its spans with the result
\* of a task has them moved as well
shifted_in_place(c, tasks, offsets, sensitivity) ==
    LET Sharing(k) ==
            {i \in 1..Len(tasks) :
                /\ tasks[i].shares
                /\ c[k].key = generate_key(tasks[i].original_text,
                                           tasks[i].generated_text, sensitivity)}
        OffsetOf(i) == IF i - 1 < Len(offsets) THEN offsets[i] ELSE 0
    IN [k \in 1..Len(c) |->
           IF Sharing(k) = {} THEN c[k]
           ELSE LET i == CHOOSE j \in Sharing(k) : TRUE
                IN [c[k] EXCEPT !.data.changes =
                       [n \in 1..Len(@) |-> shift_change(@[n], OffsetOf(i))]]]

\* The response of the similarity short-circuit and of a failed chunk
neutral_response ==
    [summary |-> [is_safe |-> TRUE, risk_score |-> 0,
                  semantic_change_level |-> Level_NONE],
     changes |-> <<>>]

(***************************************************************************)
(* The splitter on its own: one text of up to three paragraphs is split.   *)
(***************************************************************************)
MaxParagraphLen == 7

\* The texts of one, two and three paragraphs of 0..MaxParagraphLen
\* characters each
SplitTexts ==
    LET Lens == 0..MaxParagraphLen
        sep == <<"\n", "\n">>
    IN {Repeat("A", a) : a \in Lens}
       \cup {Repeat("A", a) \o sep \o Repeat("B", b) : a \in Lens, b \in Lens}
       \cup {Repeat("A", a) \o sep \o Repeat("B", b) \o sep \o Repeat("C", c) :
                a \in Lens, b \in Lens, c \in Lens}

InitSplit ==
    /\ cache = <<>>
    /\ hits = 0
    /\ misses = 0
    /\ max_size = 1000
    /\ ttl_seconds = 3600
    /\ now = 0
    /\ \E text \in SplitTexts :
           last = [name |-> "_split_into_chunks", text |-> text,
                   returned |-> FALSE, chunks |-> <<>>, offsets |-> <<>>]
    /\ written = {}
    /\ budget = 0
    /\ proc = <<>>
    /\ returned = {}

\* _split_into_chunks(text), and the offsets _merge_chunk_results computes
\* for the chunks
SplitText ==
    /\ ~last.returned
    /\ last' = [last EXCEPT !.returned = TRUE,
                   !.chunks = split_into_chunks(last.text, max_chunk_size),
                   !.offsets = chunk_offsets(
                                   split_into_chunks(last.text, max_chunk_size))]
    /\ UNCHANGED <<cache, hits, misses, max_size, ttl_seconds, now, written,
                   budget, proc, returned>>

NextSplit == SplitText

SpecSplit == InitSplit /\ [][NextSplit]_vars

(***************************************************************************)
(* DiffEngine: one oracle call                                             *)
(***************************************************************************)
\* What one attempt of the oracle call can end in: an exception of the
\* client (APITimeoutError, RateLimitError, another APIError, an OpenAIError
\* that is no APIError), an empty content, a content that is not JSON, or a
\* JSON object.
RetriedErrors == {"APITimeoutError", "RateLimitError", "APIError"}
ClientErrors == RetriedErrors \cup {"OpenAIError"}

\* wait=wait_exponential(multiplier=1, min=2, max=10): the seconds tenacity
\* sleeps after attempt attempt_number has failed and before the next one,
\* max(max(0, min), min(multiplier * 2 ** (attempt_number - 1), max)) since
\* tenacity 8
wait_exponential(attempt_number) ==
    Max(Max(0, 2), Min(1 * 2 ^ (attempt_number - 1), 10))

\* A faulty variant of retries: a fourth attempt is made
retries_four(reply, attempt_number) ==
    reply.kind \in RetriedErrors /\ attempt_number < 4

\* A faulty variant of retries: every failure is retried
retries_any_failure(reply, attempt_number) ==
    reply.kind # "json" /\ attempt_number < 3

\* @retry(stop_after_attempt(3), retry_if_exception_type(...)): whether the
\* attempt that ended in reply is followed by another one
retries(reply, attempt_number) ==
    reply.kind \in RetriedErrors /\ attempt_number < 3

\* From the content of the reply to the validated response: None when
\* LLMResponseError or json.JSONDecodeError is raised on the way
response_of(reply, original_text, generated_text) ==
    IF reply.kind # "json" THEN None
    ELSE validate_and_build_response(
             validate_and_fix_spans(reply.data, original_text, generated_text))

\* The exception analyze_diff raises for a call that ended in reply without
\* a response: every except clause raises LLMAPIError
raised_for(reply) ==
    [error |-> "LLMAPIError",
     message |-> IF reply.kind = "RateLimitError" THEN "Rate limit exceeded"
                 ELSE IF reply.kind = "APITimeoutError" THEN "Request timed out"
                 ELSE IF reply.kind = "APIError" THEN "API error"
                 ELSE IF reply.kind = "OpenAIError" THEN "OpenAI client error"
                 ELSE "Unexpected error"]

\* A faulty variant of cache_hit: the cached response is never used
cache_hit_never(cached_response) == FALSE

\* if cached_response: (a dict that is not empty)
cache_hit(cached_response) ==
    cached_response # None /\ DOMAIN cached_response[1] # {}

(***************************************************************************)
(* compare_texts: the status of the answer to POST /v1/compare             *)
(***************************************************************************)
\* str(e) of the LLMAPIError analyze_diff raises with the message
rate_limit_text ==
    <<"R", "a", "t", "e", " ", "l", "i", "m", "i", "t", " ", "e", "x", "c",
      "e", "e", "d", "e", "d", ".", " ", "P", "l", "e", "a", "s", "e", " ",
      "t", "r", "y", " ", "a", "g", "a", "i", "n", " ", "l", "a", "t", "e",
      "r", ".">>
timed_out_text ==
    <<"R", "e", "q", "u", "e", "s", "t", " ", "t", "i", "m", "e", "d", " ",
      "o", "u", "t", ".", " ", "P", "l", "e", "a", "s", "e", " ", "t", "r",
      "y", " ", "a", "g", "a", "i", "n", ".">>
api_error_text ==
    <<"A", "P", "I", " ", "e", "r", "r", "o", "r", ":", " ", "I", "n", "t",
      "e", "r", "n", "a", "l", " ", "s", "e", "r", "v", "e", "r", " ", "e",
      "r", "r", "o", "r">>
client_error_text ==
    <<"O", "p", "e", "n", "A", "I", " ", "c", "l", "i", "e", "n", "t", " ",
      "e", "r", "r", "o", "r", ":", " ", "C", "o", "n", "n", "e", "c", "t",
      "i", "o", "n", " ", "r", "e", "f", "u", "s", "e", "d">>
unexpected_text ==
    <<"U", "n", "e", "x", "p", "e", "c", "t", "e", "d", " ", "e", "r", "r",
      "o", "r", ":", " ", "L", "L", "M", " ", "r", "e", "t", "u", "r", "n",
      "e", "d", " ", "e", "m", "p", "t", "y", " ", "r", "e", "s", "p", "o",
      "n", "s", "e">>

message_text(message) ==
    IF message = "Rate limit exceeded" THEN rate_limit_text
    ELSE IF message = "Request timed out" THEN timed_out_text
    ELSE IF message = "API error" THEN api_error_text
    ELSE IF message = "OpenAI client error" THEN client_error_text
    ELSE unexpected_text

\* The status code compare_texts gives an exception of analyze_diff
status_code(error) ==
    IF error.error = "LLMAPIError"
    THEN LET error_message == lower(message_text(error.message))
         IN IF Find(error_message, <<"r", "a", "t", "e", " ", "l", "i", "m",
                                     "i", "t">>) >= 0
            THEN 503
            ELSE IF Find(error_message,
                         <<"t", "i", "m", "e", "o", "u", "t">>) >= 0
            THEN 504
            ELSE 502
    ELSE 500

(***************************************************************************)
(* The engine in use: callers of analyze_diff that share the cache of      *)
(* get_cache(), the oracle, the clock and clear_cache().                   *)
(***************************************************************************)
Procs == {1, 2}

\* settings.DEFAULT_LLM_MODEL and settings.PREMIUM_LLM_MODEL
default_model == "gpt-4o-mini"
premium_model == "gpt-4o"

\* selected_model = self.premium_model if request.premium_mode
\*                  else self.default_model
selected_model(request) ==
    IF request.premium_mode THEN premium_model ELSE default_model

\* written in the engine: per key of an entry, the model whose answer the
\* entry holds ("none" for the similarity short-circuit).  The writers once
\* the cache is c and the entries under keys have been stored for model.
Writers(w, c, keys, model) ==
    {x \in w : x.key \in CacheKeys(c) /\ x.key \notin keys}
    \cup {[key |-> k, model |-> model] : k \in keys}

WriterOf(w, key) == (CHOOSE x \in w : x.key = key).model

CompareRequest(original_text, generated_text, sensitivity) ==
    [original_text |-> original_text, generated_text |-> generated_text,
     sensitivity |-> sensitivity, premium_mode |-> FALSE]

ArgsOf(request) ==
    <<request.original_text, request.generated_text, request.sensitivity>>

\* A caller between two calls, with the requests in queue still to make.
\* pc: "idle", "calling" (single oracle call in flight), "gather" (chunk
\* tasks created), "chunking" (chunk tasks running), "done", "raised".
\* calls: the oracle attempts issued by the current call of analyze_diff.
\* completed: the positions of the tasks whose oracle call has ended, in the
\* order in which they ended.
\* attempts: the attempts of the oracle call made so far, the one in flight
\* included.  outcome: what the last attempt that ended ended in.
\* waits: the seconds slept between the attempts made so far.
\* reply: the JSON object of the oracle the result was built from.
\* prior: the results returned before this call began for the same
\* arguments whose entry was stored and within its TTL when it began.
Idle(queue) ==
    [pc |-> "idle", queue |-> queue, req |-> None, attempts |-> 0,
     calls |-> 0, outcome |-> "none", waits |-> <<>>, reply |-> None,
     tasks |-> <<>>,
     completed |-> <<>>, original_chunks |-> <<>>, result |-> None,
     prior |-> {}]

\* returned, once the entries under the keys in removed have left the map,
\* entries have been stored under the keys in stored and the results in
\* results have been returned.
Remember(ret, removed, stored, results) ==
    {IF KeyOf(x.args) \in stored THEN [x EXCEPT !.overwritten = TRUE] ELSE x :
        x \in {y \in ret : KeyOf(y.args) \notin removed}}
    \cup results

Returns(request, response) ==
    {[args |-> ArgsOf(request), result |-> response, overwritten |-> FALSE]}

Prior(request) ==
    {x \in returned :
        /\ x.args = ArgsOf(request)
        /\ \E i \in 1..Len(cache) :
               cache[i].key = KeyOf(x.args) /\ now <= cache[i].expires_at}

\* The chunk tasks _analyze_with_chunking creates, in the order of creation
chunk_tasks(original_chunks, generated_chunks) ==
    LET all == [i \in 1..Len(original_chunks) |->
                   [chunk_index |-> i - 1,
                    original_text |-> original_chunks[i],
                    generated_text |-> generated_chunks[i],
                    state |-> "created", attempts |-> 0, outcome |-> "none",
                    waits |-> <<>>, shares |-> FALSE,
                    result |-> None, failed |-> FALSE]]
        NotEmpty(t) == t.original_text # <<>> \/ t.generated_text # <<>>
    IN SelectSeq(all, NotEmpty)

\* analyze_diff up to its first await or its return: cache lookup,
\* similarity short-circuit, the choice between one call and chunking.
Start(p) ==
    LET self == proc[p]
        request == Head(self.queue)
        a == request.original_text
        b == request.generated_text
        s == request.sensitivity
        got == cache_get(cache, hits, misses, now, a, b, s)
        expired == CacheKeys(cache) \ CacheKeys(got.cache)
        begun == [Idle(Tail(self.queue)) EXCEPT !.req = Some(request),
                                                !.prior = Prior(request)]
        stored == cache_set(got.cache, max_size, ttl_seconds, now, a, b, s,
                            neutral_response)
        original_split == split_into_chunks(a, max_chunk_size)
        generated_split == split_into_chunks(b, max_chunk_size)
        max_chunks == Max(Len(original_split), Len(generated_split))
        original_chunks == pad_chunks(original_split, max_chunks)
        generated_chunks == pad_chunks(generated_split, max_chunks)
        tasks == chunk_tasks(original_chunks, generated_chunks)
    IN /\ self.pc \in {"idle", "done", "raised"}
       /\ self.queue # <<>>
       /\ hits' = got.hits
       /\ misses' = got.misses
       /\ IF cache_hit(got.value)
          THEN LET response == DiffResponse(got.value[1])
               IN /\ cache' = got.cache
                  /\ written' = Writers(written, got.cache, {}, "none")
                  /\ proc' = [proc EXCEPT ![p] =
                        [begun EXCEPT !.pc = "done",
                            !.result = Some([path |-> "cache",
                                response |-> response,
                                model |-> WriterOf(written,
                                              KeyOf(ArgsOf(request)))])]]
                  /\ returned' = Remember(returned, expired, {},
                                          Returns(request, response))
          ELSE IF exceeds_threshold(ratio(a, b))
          THEN /\ cache' = stored.cache
               /\ written' = Writers(written, stored.cache,
                                     {KeyOf(ArgsOf(request))}, "none")
               /\ proc' = [proc EXCEPT ![p] =
                     [begun EXCEPT !.pc = "done",
                         !.result = Some([path |-> "short",
                                          response |-> neutral_response])]]
               /\ returned' =
                      Remember(returned,
                               expired \cup stored.expired_keys
                                       \cup stored.oldest_keys,
                               {KeyOf(ArgsOf(request))},
                               Returns(request, neutral_response))
          ELSE IF Len(a) > CHUNK_THRESHOLD \/ Len(b) > CHUNK_THRESHOLD
          THEN /\ cache' = got.cache
               /\ written' = Writers(written, got.cache, {}, "none")
               /\ returned' = Remember(returned, expired, {}, {})
               /\ IF \E i \in 1..Len(tasks) :
                         ~CompareRequest_valid(tasks[i].original_text,
                                               tasks[i].generated_text)
                  THEN proc' = [proc EXCEPT ![p] =
                           [begun EXCEPT !.pc = "raised",
                               !.result = Some([error |-> "ValidationError",
                                                message |-> "CompareRequest"])]]
                  ELSE proc' = [proc EXCEPT ![p] =
                           [begun EXCEPT !.pc = "gather", !.tasks = tasks,
                               !.original_chunks = original_chunks]]
          ELSE /\ cache' = got.cache
               /\ written' = Writers(written, got.cache, {}, "none")
               /\ returned' = Remember(returned, expired, {}, {})
               /\ proc' = [proc EXCEPT ![p] =
                     [begun EXCEPT !.pc = "calling", !.attempts = 1,
                                   !.calls = 1]]
       /\ UNCHANGED <<max_size, ttl_seconds, now, last, budget>>

\* _analyze_single_chunk of the tasks, in the order asyncio.gather starts
\* them, each up to its oracle call or its return of a cached result:
\* [tasks, cache, hits, misses]
RECURSIVE start_tasks(_, _, _, _, _, _)
start_tasks(tasks, c, h, m, t, sensitivity) ==
    IF tasks = <<>>
    THEN [tasks |-> <<>>, cache |-> c, hits |-> h, misses |-> m]
    ELSE LET task == Head(tasks)
             got == cache_get(c, h, m, t, task.original_text,
                              task.generated_text, sensitivity)
             task1 == IF cache_hit(got.value)
                      THEN [task EXCEPT !.state = "done",
                               !.result = Some(DiffResponse(got.value[1]))]
                      ELSE [task EXCEPT !.state = "calling", !.attempts = 1]
             rest == start_tasks(Tail(tasks), got.cache, got.hits, got.misses,
                                 t, sensitivity)
         IN [rest EXCEPT !.tasks = <<task1>> \o @]

StartChunks(p) ==
    LET self == proc[p]
        request == self.req[1]
        st == start_tasks(self.tasks, cache, hits, misses, now,
                          request.sensitivity)
        issued == Cardinality({i \in 1..Len(st.tasks) :
                                  st.tasks[i].state = "calling"})
    IN /\ self.pc = "gather"
       /\ cache' = st.cache
       /\ hits' = st.hits
       /\ misses' = st.misses
       /\ proc' = [proc EXCEPT ![p] =
             [self EXCEPT !.pc = "chunking", !.tasks = st.tasks,
                          !.calls = issued]]
       /\ returned' = Remember(returned, CacheKeys(cache) \ CacheKeys(st.cache),
                               {}, {})
       /\ written' = Writers(written, st.cache, {}, "none")
       /\ UNCHANGED <<max_size, ttl_seconds, now, last, budget>>

(***************************************************************************)
(* The texts compared and what the oracle may answer about them.           *)
(***************************************************************************)
medium == <<"m", "e", "d", "i", "u", "m">>

abcab == <<"a", "b", "c", "a", "b">>
abxab == <<"a", "b", "x", "a", "b">>
AAAA == <<"A", "A", "A", "A">>
BBBB == <<"B", "B", "B", "B">>
BBbB == <<"B", "B", "b", "B">>
\* Two requests with one cache key, the second one of equal texts
CollidingRequest == CompareRequest(<<"a">>, <<"a", "|", "a", "|", "a">>, medium)
EqualTextsRequest == CompareRequest(<<"a", "|", "a">>, <<"a", "|", "a">>, medium)
\* One request of the single-call path whose spans the oracle reports
SpanRequest == CompareRequest(abcab, abxab, medium)
\* One request of the chunked path, and its first chunk pair as a request
LongRequest ==
    CompareRequest(AAAA \o <<"\n", "\n">> \o BBBB,
                   AAAA \o <<"\n", "\n">> \o BBbB, medium)
ChunkPairRequest == CompareRequest(AAAA, AAAA, medium)
\* Two texts that differ and are more than 96% similar (50/51)
NearRequest == CompareRequest(Repeat("a", 25), Repeat("a", 25) \o <<"b">>, medium)

\* One request of the chunked path whose texts both begin with an empty
\* paragraph, so that the first chunk pair is empty/empty
B7 == Repeat("B", 7)
B3bB3 == <<"B", "B", "B", "b", "B", "B", "B">>
SkippedPairRequest ==
    CompareRequest(<<"\n", "\n">> \o B7, <<"\n", "\n">> \o B3bB3, medium)
\* One request of the chunked path whose generated text has one chunk more
UnevenRequest ==
    CompareRequest(AAAA \o <<"\n", "\n">> \o BBBB,
                   AAAA \o <<"\n", "\n">> \o BBBB \o <<"\n", "\n">>
                        \o Repeat("C", 4), medium)

\* One request of the chunked path whose generated text has a shorter first
\* chunk than the original text
ShorterRequest ==
    CompareRequest(AAAA \o <<"\n", "\n">> \o BBBB,
                   <<"A", "A", "A">> \o <<"\n", "\n">> \o BBbB, medium)

\* LongRequest with its two paragraphs in the other order: the same chunk
\* pairs under another key of the whole request
SwappedRequest ==
    CompareRequest(BBBB \o <<"\n", "\n">> \o AAAA,
                   BBbB \o <<"\n", "\n">> \o AAAA, medium)

\* CollidingRequest for the premium model
PremiumRequest == [CollidingRequest EXCEPT !.premium_mode = TRUE]

\* What the callers ask, in this order
Workloads ==
    {<<<<SpanRequest>>, <<>>>>,
     <<<<CollidingRequest, EqualTextsRequest, CollidingRequest>>, <<>>>>,
     <<<<LongRequest, ChunkPairRequest>>, <<>>>>,
     <<<<CollidingRequest, CollidingRequest>>, <<CollidingRequest>>>>,
     <<<<NearRequest>>, <<ChunkPairRequest>>>>,
     <<<<SkippedPairRequest>>, <<>>>>,
     <<<<UnevenRequest>>, <<>>>>,
     <<<<CollidingRequest>>, <<PremiumRequest>>>>}

span(text, start, end) == [text |-> text, start |-> start, end |-> end]
span_in(text, start, end, before, after) ==
    [text |-> text, start |-> start, end |-> end,
     context_before |-> before, context_after |-> after]
change(severity, original_span, generated_span) ==
    [type |-> <<"F", "a", "c", "t", "u", "a", "l">>, severity |-> severity,
     original_span |-> original_span, generated_span |-> generated_span]
summary(is_safe, risk_score, level) ==
    [is_safe |-> is_safe, risk_score |-> risk_score,
     semantic_change_level |-> level]
json(s, changes) == [kind |-> "json", data |-> [summary |-> s, changes |-> changes]]

Minor == <<"M", "i", "n", "o", "r">>
\* The changes "c" -> "x" of SpanRequest as the oracle may report them:
\* exact, with wrong offsets and contexts, with wrong offsets near by and far
\* off, with a text that occurs nowhere, with an empty text, with an end
\* beyond the text, with a negative start, without offsets
SpanChanges ==
    {<<change(Minor, span(<<"c">>, 2, 3), span(<<"x">>, 2, 3))>>,
     <<change(Minor, span_in(<<"a", "b">>, 0, 1, <<"c">>, <<>>),
                     span_in(<<"a">>, 9, 11, <<"b", "x">>, <<"b">>))>>,
     <<change(Minor, span(<<"c">>, 52, 53), span(<<"x">>, 0, 1))>>,
     <<change(Minor, span(<<"a", "b">>, 60, 62), span(<<"b">>, 3, 4))>>,
     <<change(Minor, span(<<"z", "z">>, 0, 2), span(<<"x">>, 2, 3)),
       change(Minor, span(<<"c">>, 2, 3), span(<<"x">>, 2, 3))>>,
     <<change(Minor, span(<<>>, 0, 3), span(<<"x">>, 2, 3))>>,
     <<change(Minor, span(<<"a", "b">>, 3, 9), span(<<"x", "a", "b">>, 2, 60))>>,
     <<change(Minor, span(<<"a", "b">>, -2, 5), span(<<"x">>, 2, 3))>>,
     <<change(Minor, [text |-> <<"c">>], span(<<"x">>, 2, 3))>>}

\* The severities the oracle may give that change
SpanSeverities ==
    {<<" ", "H", "I", "G", "H", " ">>, <<"u", "r", "g", "e", "n", "t">>,
     <<"c", "r", "i", "t", "i", "c", "a", "l">>}

\* The summaries the oracle may give: consistent ones, ones whose is_safe
\* contradicts the risk score, ones that do not validate
SpanSummaries ==
    {summary(TRUE, 90, Level_CRITICAL), summary(FALSE, 10, Level_MINOR),
     summary(TRUE, 41, Level_MODERATE), summary(TRUE, 40, Level_MODERATE),
     summary(TRUE, 150, Level_FATAL), summary(TRUE, 10, <<"m", "i", "n", "o", "r">>)}

ErrorReplies ==
    {[kind |-> k] : k \in ClientErrors \cup {"empty", "not_json"}}

OracleReplies(original_text, generated_text) ==
    ErrorReplies \cup
    IF <<original_text, generated_text>> = <<abcab, abxab>>
    THEN {json(summary(TRUE, 10, Level_MINOR), c) : c \in SpanChanges}
         \cup {json(summary(TRUE, 10, Level_MINOR),
                    <<change(v, span(<<"c">>, 2, 3), span(<<"x">>, 2, 3))>>) :
                  v \in SpanSeverities}
         \cup {json(sm, <<>>) : sm \in SpanSummaries}
         \cup {[kind |-> "json", data |-> [changes |-> <<>>]],
               [kind |-> "json", data |-> [summary |-> summary(FALSE, 55, Level_MINOR)]]}
    ELSE IF <<original_text, generated_text>> = <<BBBB, BBbB>>
    THEN {json(summary(TRUE, 30, Level_MINOR),
               <<change(Minor, span(<<"B">>, 2, 3), span(<<"b">>, 2, 3))>>),
          json(summary(TRUE, 90, Level_FATAL),
               <<change(<<"h", "i", "g", "h">>, span(<<"B">>, 0, 1),
                        span(<<"b">>, 0, 1))>>)}
    ELSE IF <<original_text, generated_text>> = <<B7, B3bB3>>
    THEN {json(summary(TRUE, 30, Level_MINOR),
               <<change(Minor, span(<<"B">>, 3, 4), span(<<"b">>, 3, 4))>>)}
    ELSE {json(summary(FALSE, 70, Level_MODERATE), <<>>),
          json(summary(TRUE, 10, Level_MINOR), <<>>)}

(***************************************************************************)
(* The remaining steps of analyze_diff.                                    *)
(***************************************************************************)
\* One attempt of the oracle call of the single-call path ends in reply:
\* retry, raise, or reconcile, validate, store and return.
OracleReturns(p, reply) ==
    LET self == proc[p]
        request == self.req[1]
        a == request.original_text
        b == request.generated_text
        response == response_of(reply, a, b)
        stored == cache_set(cache, max_size, ttl_seconds, now, a, b,
                            request.sensitivity, model_dump(response[1]).data)
    IN /\ self.pc = "calling"
       /\ reply \in OracleReplies(a, b)
       /\ IF retries(reply, self.attempts)
          THEN /\ proc' = [proc EXCEPT ![p] =
                     [self EXCEPT !.attempts = @ + 1, !.calls = @ + 1,
                         !.outcome = reply.kind,
                         !.waits = Append(@, wait_exponential(self.attempts))]]
               /\ UNCHANGED <<cache, returned, written>>
          ELSE IF response = None
          THEN /\ proc' = [proc EXCEPT ![p] =
                     [self EXCEPT !.pc = "raised", !.outcome = reply.kind,
                                  !.result = Some(raised_for(reply))]]
               /\ UNCHANGED <<cache, returned, written>>
          ELSE /\ cache' = stored.cache
               /\ written' = Writers(written, stored.cache,
                                     {KeyOf(ArgsOf(request))},
                                     selected_model(request))
               /\ proc' = [proc EXCEPT ![p] =
                     [self EXCEPT !.pc = "done", !.outcome = reply.kind,
                         !.reply = Some(reply.data),
                         !.result = Some([path |-> "single",
                                          response |-> response[1]])]]
               /\ returned' =
                      Remember(returned,
                               stored.expired_keys \cup stored.oldest_keys,
                               {KeyOf(ArgsOf(request))},
                               Returns(request, response[1]))
       /\ UNCHANGED <<hits, misses, max_size, ttl_seconds, now, last, budget>>

\* One attempt of the oracle call of chunk task i ends in reply: retry,
\* substitute the neutral response for any exception, or reconcile,
\* validate, store under the chunk's key and return.
ChunkReturns(p, i, reply) ==
    LET self == proc[p]
        request == self.req[1]
        task == self.tasks[i]
        a == task.original_text
        b == task.generated_text
        response == response_of(reply, a, b)
        dumped == model_dump(response[1])
        stored == cache_set(cache, max_size, ttl_seconds, now, a, b,
                            request.sensitivity, dumped.data)
    IN /\ self.pc = "chunking"
       /\ i \in 1..Len(self.tasks)
       /\ task.state = "calling"
       /\ reply \in OracleReplies(a, b)
       /\ IF retries(reply, task.attempts)
          THEN /\ proc' = [proc EXCEPT ![p] =
                     [self EXCEPT !.tasks[i].attempts = @ + 1,
                         !.tasks[i].outcome = reply.kind,
                         !.tasks[i].waits =
                             Append(@, wait_exponential(task.attempts)),
                         !.calls = @ + 1]]
               /\ UNCHANGED <<cache, returned, written>>
          ELSE IF response = None
          THEN /\ proc' = [proc EXCEPT ![p] =
                     [self EXCEPT !.completed = Append(@, i), !.tasks[i] =
                         [task EXCEPT !.state = "done", !.failed = TRUE,
                                      !.outcome = reply.kind,
                                      !.result = Some(neutral_response)]]]
               /\ UNCHANGED <<cache, returned, written>>
          ELSE /\ cache' = stored.cache
               /\ written' = Writers(written, stored.cache,
                                     {generate_key(a, b, request.sensitivity)},
                                     selected_model(request))
               /\ proc' = [proc EXCEPT ![p] =
                     [self EXCEPT !.completed = Append(@, i), !.tasks[i] =
                         [task EXCEPT !.state = "done", !.outcome = reply.kind,
                                      !.shares = dumped.shares,
                                      !.result = response]]]
               /\ returned' =
                      Remember(returned,
                               stored.expired_keys \cup stored.oldest_keys,
                               {generate_key(a, b, request.sensitivity)}, {})
       /\ UNCHANGED <<hits, misses, max_size, ttl_seconds, now, last, budget>>

\* A faulty variant of gathered: the results in the order in which the calls
\* ended, those that needed no call last
gathered_as_completed(tasks, completed) ==
    LET uncalled == SelectSeq([i \in 1..Len(tasks) |-> i],
                              LAMBDA i : \A k \in 1..Len(completed) :
                                             completed[k] # i)
        order == completed \o uncalled
    IN [k \in 1..Len(tasks) |-> tasks[order[k]].result[1]]

\* await asyncio.gather(*tasks): the results in the order of the tasks
gathered(tasks, completed) ==
    [i \in 1..Len(tasks) |-> tasks[i].result[1]]

\* asyncio.gather has every result: merge, store, return.
Merge(p) ==
    LET self == proc[p]
        request == self.req[1]
        chunk_results == gathered(self.tasks, self.completed)
        merged_response == merge_chunk_results(chunk_results,
                                               self.original_chunks)
        shifted == shifted_in_place(cache, self.tasks,
                                    chunk_offsets(self.original_chunks),
                                    request.sensitivity)
        stored == cache_set(shifted, max_size, ttl_seconds, now,
                            request.original_text, request.generated_text,
                            request.sensitivity,
                            model_dump(merged_response).data)
    IN /\ self.pc = "chunking"
       /\ \A i \in 1..Len(self.tasks) : self.tasks[i].state = "done"
       /\ cache' = stored.cache
       /\ proc' = [proc EXCEPT ![p] =
             [self EXCEPT !.pc = "done",
                 !.result = Some([path |-> "merge",
                                  response |-> merged_response])]]
       /\ returned' =
              Remember(returned, stored.expired_keys \cup stored.oldest_keys,
                       {KeyOf(ArgsOf(request))},
                       Returns(request, merged_response))
       /\ written' = Writers(written, stored.cache, {KeyOf(ArgsOf(request))},
                             selected_model(request))
       /\ UNCHANGED <<hits, misses, max_size, ttl_seconds, now, last, budget>>

\* DiffEngine.__init__ with the cache get_cache() creates
Init ==
    /\ cache = <<>>
    /\ hits = 0
    /\ misses = 0
    /\ max_size = 1000
    /\ ttl_seconds = 3600
    /\ now = 0
    /\ last = NoOp
    /\ written = {}
    /\ budget = 0
    /\ \E w \in Workloads : proc = [p \in Procs |-> Idle(w[p])]
    /\ returned = {}

Next ==
    \/ \E p \in Procs : Start(p)
    \/ \E p \in Procs : StartChunks(p)
    \/ \E p \in {q \in Procs : proc[q].pc = "calling"} :
           \E reply \in OracleReplies(proc[p].req[1].original_text,
                                      proc[p].req[1].generated_text) :
               OracleReturns(p, reply)
    \/ \E p \in Procs : \E i \in 1..Len(proc[p].tasks) :
           \E reply \in OracleReplies(proc[p].tasks[i].original_text,
                                      proc[p].tasks[i].generated_text) :
               ChunkReturns(p, i, reply)
    \/ \E p \in Procs : Merge(p)
    \/ Clear
    \/ Tick(MaxEngineTicks)

Spec == Init /\ [][Next]_vars

(***************************************************************************)
(* The engine where every oracle attempt ends and the event loop runs      *)
(* every task that can run: a caller on the single-call path beside a      *)
(* second one, or a caller on the chunked path.                            *)
(***************************************************************************)
LiveWorkloads ==
    {<<<<CollidingRequest>>, <<CollidingRequest>>>>,
     <<<<LongRequest>>, <<>>>>}

InitLive ==
    /\ cache = <<>>
    /\ hits = 0
    /\ misses = 0
    /\ max_size = 1000
    /\ ttl_seconds = 3600
    /\ now = 0
    /\ last = NoOp
    /\ written = {}
    /\ budget = 0
    /\ \E w \in LiveWorkloads : proc = [p \in Procs |-> Idle(w[p])]
    /\ returned = {}

\* An attempt of the oracle call of p ends, in some reply
OracleEnds(p) ==
    \E reply \in OracleReplies(proc[p].req[1].original_text,
                               proc[p].req[1].generated_text) :
        OracleReturns(p, reply)

\* An attempt of the oracle call of a chunk task of p ends, in some reply
ChunkEnds(p) ==
    \E i \in 1..Len(proc[p].tasks) :
        \E reply \in OracleReplies(proc[p].tasks[i].original_text,
                                   proc[p].tasks[i].generated_text) :
            ChunkReturns(p, i, reply)

NextLive ==
    \/ \E p \in Procs : Start(p)
    \/ \E p \in Procs : StartChunks(p)
    \/ \E p \in {q \in Procs : proc[q].pc = "calling"} : OracleEnds(p)
    \/ \E p \in Procs : ChunkEnds(p)
    \/ \E p \in Procs : Merge(p)

SpecLive ==
    /\ InitLive
    /\ [][NextLive]_vars
    /\ \A p \in Procs :
           /\ WF_vars(StartChunks(p))
           /\ WF_vars(proc[p].pc = "calling" /\ OracleEnds(p))
           /\ WF_vars(ChunkEnds(p))
           /\ WF_vars(Merge(p))

(***************************************************************************)
(* The engine asked for chunked comparisons alone: two that have their     *)
(* chunk pairs in common, one after the other, or one whose generated text *)
(* has a shorter first chunk.                                              *)
(***************************************************************************)
ChunkedWorkloads ==
    {<<<<LongRequest, SwappedRequest>>, <<>>>>,
     <<<<ShorterRequest>>, <<>>>>}

InitChunked ==
    /\ cache = <<>>
    /\ hits = 0
    /\ misses = 0
    /\ max_size = 1000
    /\ ttl_seconds = 3600
    /\ now = 0
    /\ last = NoOp
    /\ written = {}
    /\ budget = 0
    /\ \E w \in ChunkedWorkloads : proc = [p \in Procs |-> Idle(w[p])]
    /\ returned = {}

NextChunked ==
    \/ \E p \in Procs : Start(p)
    \/ \E p \in Procs : StartChunks(p)
    \/ \E p \in Procs : \E i \in 1..Len(proc[p].tasks) :
           \E reply \in OracleReplies(proc[p].tasks[i].original_text,
                                      proc[p].tasks[i].generated_text) :
               ChunkReturns(p, i, reply)
    \/ \E p \in Procs : Merge(p)

SpecChunked == InitChunked /\ [][NextChunked]_vars

(***************************************************************************)
(* Properties of the engine.                                               *)
(***************************************************************************)
\* The callers whose call of analyze_diff has returned a DiffResponse
Answered == {p \in Procs : proc[p].pc = "done"}
PathOf(p) == proc[p].result[1].path
ResponseOf(p) == proc[p].result[1].response
RequestOf(p) == proc[p].req[1]

\* source_text[span.start:span.end] == span.text
SpanAccurate(sp, source_text) == Slice(source_text, sp.start, sp.end) = sp.text

\* summary.is_safe == (summary.risk_score <= 40 and no change is critical)
SafeIffLowRisk(response) ==
    response.summary.is_safe
        = (response.summary.risk_score <= 40
           /\ \A i \in 1..Len(response.changes) :
                  response.changes[i].severity # CRITICAL)

\* C1 as stated: on the single-call path every span of every change of the
\* returned response is accurate: the source text sliced at its offsets is
\* its text.
C1_SpanAccuracy ==
    \A p \in Answered : PathOf(p) = "single" =>
        \A i \in 1..Len(ResponseOf(p).changes) :
            /\ SpanAccurate(ResponseOf(p).changes[i].original_span,
                            RequestOf(p).original_text)
            /\ SpanAccurate(ResponseOf(p).changes[i].generated_span,
                            RequestOf(p).generated_text)

\* C1, amended: on the single-call path every span with a non-empty text of
\* every change of the returned response is accurate.
C1_NonEmptySpanAccuracy ==
    \A p \in Answered : PathOf(p) = "single" =>
        \A i \in 1..Len(ResponseOf(p).changes) :
            LET ch == ResponseOf(p).changes[i]
            IN /\ (ch.original_span.text # <<>> =>
                      SpanAccurate(ch.original_span, RequestOf(p).original_text))
               /\ (ch.generated_span.text # <<>> =>
                      SpanAccurate(ch.generated_span, RequestOf(p).generated_text))

\* A single-call response with one change whose original span has a
\* non-empty text and was reported at another offset by the oracle.
C1_Witness ==
    \E p \in Answered :
        /\ PathOf(p) = "single"
        /\ Len(ResponseOf(p).changes) = 1
        /\ Len(proc[p].reply[1].changes) = 1
        /\ ResponseOf(p).changes[1].original_span.text # <<>>
        /\ ResponseOf(p).changes[1].original_span.start
               # proc[p].reply[1].changes[1].original_span.start

\* C2: every response analyze_diff returns has is_safe equal to
\* (risk_score <= 40 and no change of severity critical).
C2_SafeIffLowRisk ==
    \A p \in Answered : SafeIffLowRisk(ResponseOf(p))

\* C3: a single-call or merged response with risk_score > 40 or with a
\* change of severity critical has is_safe false.
C3_UnsafeWhenRisky ==
    \A p \in Answered :
        /\ PathOf(p) \in {"single", "merge"}
        /\ \/ ResponseOf(p).summary.risk_score > 40
           \/ \E i \in 1..Len(ResponseOf(p).changes) :
                  ResponseOf(p).changes[i].severity = CRITICAL
        => ResponseOf(p).summary.is_safe = FALSE

\* A single-call response with risk_score > 40 for which the oracle
\* reported is_safe true.
C3_Witness ==
    \E p \in Answered :
        /\ PathOf(p) = "single"
        /\ proc[p].reply[1].summary.is_safe = TRUE
        /\ ResponseOf(p).summary.risk_score > 40

\* C4: a call of analyze_diff for texts whose similarity ratio exceeds the
\* threshold returns the neutral response and issues no oracle call.
C4_ShortCircuit ==
    \A p \in Procs :
        /\ proc[p].pc \notin {"idle"}
        /\ exceeds_threshold(ratio(RequestOf(p).original_text,
                                   RequestOf(p).generated_text))
        => /\ proc[p].pc = "done"
           /\ ResponseOf(p) = neutral_response
           /\ proc[p].calls = 0

C6_RoundTrip ==
    last.name = "get" =>
        \A w \in written :
            w.args = last.args /\ now <= w.at + ttl_seconds
                => last.value = Some(w.data)

\* C7: get(a, b, s) returns a payload only if set was called with the very
\* triple (a, b, s) and that entry is still stored: two different triples
\* never share a key.
C7_KeyPerTriple ==
    last.name = "get" /\ last.value # None =>
        \E w \in written : w.args = last.args

\* C8: a get that meets an entry whose expires_at has passed returns None,
\* counts one miss and deletes the entry.
C8_ExpiredGetIsMiss ==
    last.name = "get" /\ last.found = "expired" =>
        /\ last.value = None
        /\ misses = last.misses0 + 1
        /\ KeyOf(last.args) \notin CacheKeys(cache)

C8_Witness == last.name = "get" /\ last.found = "expired"

\* C9: every step that is a call of set (it takes one from budget) obeys: a
\* set at size < max_size removes nothing; a set at size >= max_size
\* removes every expired entry and then, if the size is still >= max_size,
\* exactly max(1, size div 5) entries, none of them created after an entry
\* that stays.
C9_EvictionOnSet ==
    [][budget' = budget - 1 /\ last'.name = "set" =>
        LET c == cache
            expired == {i \in 1..Len(c) : now > c[i].expires_at}
            live == (1..Len(c)) \ expired
            gone == last'.expired_keys \cup last'.oldest_keys
        IN /\ CacheKeys(cache') = (CacheKeys(c) \ gone) \cup {KeyOf(last'.args)}
           /\ IF Len(c) < max_size
              THEN gone = {}
              ELSE /\ last'.expired_keys = {c[i].key : i \in expired}
                   /\ last'.oldest_keys \subseteq {c[i].key : i \in live}
                   /\ IF Cardinality(live) >= max_size
                      THEN /\ Cardinality(last'.oldest_keys)
                                = Max(1, Cardinality(live) \div 5)
                           /\ \A i \in live, j \in live :
                                  /\ c[i].key \in last'.oldest_keys
                                  /\ c[j].key \notin last'.oldest_keys
                                  => c[i].created_at <= c[j].created_at
                      ELSE last'.oldest_keys = {}]_vars

C9_Witness == last.name = "set" /\ Cardinality(last.oldest_keys) >= 2

\* C10: the map never holds more than max_size entries.
C10_SizeBound == Len(cache) <= max_size

C10_Witness ==
    last.name = "set" /\ last.oldest_keys # {} /\ Len(cache) = max_size

\* C11: a step that is a successful get (it counts a hit) leaves the map as
\* it is, the created_at and expires_at of every entry and the order of the
\* entries included; and a set that follows a successful get evicts no entry
\* that was created after an entry it keeps, whether read or not.
C11_GetKeepsEntries ==
    [][/\ hits' = hits + 1 => cache' = cache
       /\ budget' = budget - 1 /\ last.name = "get" /\ last.value # None =>
              \A i \in 1..Len(cache), j \in 1..Len(cache) :
                  /\ cache[i].key \in last'.oldest_keys
                  /\ cache[j].key \notin last'.oldest_keys
                  => cache[i].created_at <= cache[j].created_at]_vars

\* The entry set first has been read and is among the oldest the next set
\* evicts.
C11_Witness ==
    /\ last.name = "set"
    /\ hits = 1
    /\ KeyOf(EvictTriple(1)) \in last.oldest_keys

(***************************************************************************)
(* Properties of the reconciler on its own (SpecSpan)                      *)
(***************************************************************************)
HasOffsets(s) == has_key(s, "start") /\ has_key(s, "end")

\* C12: a call on a span whose offsets are given and whose
\* source_text[start:end] equals its text answers valid and not corrected and
\* leaves the span as it was; and a call on a span of non-empty text that the
\* call before accepted answers valid and not corrected and leaves the span as
\* it was.
C12_Idempotent ==
    /\ (/\ last.passes >= 1
        /\ HasOffsets(last.given)
        /\ Slice(last.source_text, last.given.start, last.given.end)
               = last.given.text)
       => (last.is_valid /\ ~last.corrected /\ last.span = last.given)
    /\ (last.passes >= 2 /\ last.given.text # <<>>)
       => (last.is_valid /\ ~last.corrected /\ last.span = last.given)

\* A span the first call moved has been through the second call.
C12_Witness ==
    /\ last.passes = 2
    /\ last.claimed.text # <<>>
    /\ HasOffsets(last.claimed)
    /\ last.claimed.start # last.span.start
    /\ last.is_valid

\* The first call has been made on a span with offsets whose text occurs more
\* than once in the source and whose context_before + text + context_after,
\* one of the windows not empty, occurs in the source.
Occurrences(source_text, text) ==
    {i \in 0..Len(source_text) : Slice(source_text, i, i + Len(text)) = text}

Fingerprint(s) == s.context_before \o s.text \o s.context_after

ContextMatches ==
    /\ last.passes = 1
    /\ HasOffsets(last.claimed)
    /\ has_key(last.claimed, "context_before")
    /\ last.claimed.text # <<>>
    /\ Cardinality(Occurrences(last.source_text, last.claimed.text)) > 1
    /\ Len(last.claimed.context_before) + Len(last.claimed.context_after) > 0
    /\ Find(last.source_text, Fingerprint(last.claimed)) # -1

IntendedStart ==
    Find(last.source_text, Fingerprint(last.claimed))
        + Len(last.claimed.context_before)

ResolvedToIntended ==
    /\ last.is_valid
    /\ last.span.start = IntendedStart
    /\ last.span.end = IntendedStart + Len(last.claimed.text)

\* C13 as stated: a span claimed at any offsets other than those of the
\* occurrence its contexts indicate is resolved to that occurrence.
C13_ContextResolves ==
    (/\ ContextMatches
     /\ <<last.claimed.start, last.claimed.end>>
            # <<IntendedStart, IntendedStart + Len(last.claimed.text)>>)
    => ResolvedToIntended

\* C13: a span whose source_text[start:end] differs from its text, and whose
\* contexts match the source around an occurrence of the text, is resolved to
\* that occurrence: start = index of context_before + text + context_after
\* plus len(context_before), end = start + len(text).
C13_ContextResolvesInexact ==
    (/\ ContextMatches
     /\ Slice(last.source_text, last.claimed.start, last.claimed.end)
            # last.claimed.text)
    => (ResolvedToIntended /\ last.corrected)

\* 'cat' claimed at [0:2] of 'the cat sat on the cat mat' with context_after
\* ' mat' is at [19:22] after the call.
C13_Witness ==
    /\ ContextMatches
    /\ last.source_text = cat_text
    /\ last.claimed.text = <<"c", "a", "t">>
    /\ last.claimed.context_before = <<>>
    /\ last.claimed.context_after = <<" ", "m", "a", "t">>
    /\ last.claimed.start = 0
    /\ last.claimed.end = 2
    /\ last.span.start = 19
    /\ last.span.end = 22

(***************************************************************************)
(* Properties of the engine: reconciliation of whole replies, chunks       *)
(***************************************************************************)
\* The span has offsets and a text that occurs nowhere in source_text
Nowhere(sp, source_text) ==
    /\ dict_get(sp, "text", <<>>) # <<>>
    /\ HasOffsets(sp)
    /\ Find(source_text, sp.text) = -1

\* The change has a span whose text occurs nowhere in its source text
Hallucinated(c, request) ==
    \/ Nowhere(c.original_span, request.original_text)
    \/ Nowhere(c.generated_span, request.generated_text)

RECURSIVE NotHallucinated(_, _)
NotHallucinated(changes, request) ==
    IF changes = <<>> THEN <<>>
    ELSE IF Hallucinated(Head(changes), request)
    THEN NotHallucinated(Tail(changes), request)
    ELSE <<Head(changes)>> \o NotHallucinated(Tail(changes), request)

SpanTextsOf(changes) ==
    [i \in 1..Len(changes) |->
        <<changes[i].original_span.text, changes[i].generated_span.text>>]

RECURSIVE ChunkBase(_, _)
ChunkBase(original_chunks, i) ==
    IF i = 0 THEN 0
    ELSE ChunkBase(original_chunks, i - 1) + Len(original_chunks[i]) + 2

\* The changes of the results of the tasks, in the order of the tasks, each
\* shifted by the base of the chunk the task was created for
RECURSIVE ShiftedByBase(_, _)
ShiftedByBase(tasks, original_chunks) ==
    IF tasks = <<>> THEN <<>>
    ELSE LET task == Head(tasks)
             changes == task.result[1].changes
         IN [j \in 1..Len(changes) |->
                shift_change(changes[j],
                             ChunkBase(original_chunks, task.chunk_index))]
            \o ShiftedByBase(Tail(tasks), original_chunks)

Merged == {p \in Answered : PathOf(p) = "merge"}

\* C15: in a merged response the start and end of every span of a change
\* reported for chunk i are its chunk-local start and end plus the sum over
\* the original chunks before chunk i of length + 2.
C15_MergeOffsets ==
    \A p \in Merged :
        ResponseOf(p).changes
            = ShiftedByBase(proc[p].tasks, proc[p].original_chunks)

\* The tasks of p whose analysis did not end in an exception
Succeeded(p) == {i \in 1..Len(proc[p].tasks) : ~proc[p].tasks[i].failed}

RECURSIVE RiskSum(_, _)
RiskSum(tasks, S) ==
    IF S = {} THEN 0
    ELSE LET i == CHOOSE j \in S : TRUE
         IN tasks[i].result[1].summary.risk_score + RiskSum(tasks, S \ {i})

\* C16: the risk_score of a merged response is the sum of the risk scores of
\* the chunks that succeeded divided, without remainder, by their number.
C16_AverageOfSucceeded ==
    \A p \in Merged :
        Succeeded(p) # {} =>
            ResponseOf(p).summary.risk_score
                = Min(100, RiskSum(proc[p].tasks, Succeeded(p))
                               \div Cardinality(Succeeded(p)))

\* NONE < MINOR < MODERATE < CRITICAL < FATAL
LevelRank(level) ==
    CHOOSE r \in 1..5 :
        <<Level_NONE, Level_MINOR, Level_MODERATE, Level_CRITICAL,
          Level_FATAL>>[r] = level

\* C17: the semantic_change_level of a merged response is a level some chunk
\* reported, and no chunk reported a level above it in
\* NONE < MINOR < MODERATE < CRITICAL < FATAL.
C17_HighestLevel ==
    \A p \in Merged :
        /\ \E i \in 1..Len(proc[p].tasks) :
               proc[p].tasks[i].result[1].summary.semantic_change_level
                   = ResponseOf(p).summary.semantic_change_level
        /\ \A i \in 1..Len(proc[p].tasks) :
               LevelRank(proc[p].tasks[i].result[1].summary.semantic_change_level)
                   <= LevelRank(ResponseOf(p).summary.semantic_change_level)

\* The span texts of the changes of the tasks in S, in the order of the tasks
RECURSIVE TextsOfTasks(_, _, _)
TextsOfTasks(tasks, S, i) ==
    IF i > Len(tasks) THEN <<>>
    ELSE (IF i \in S THEN SpanTextsOf(tasks[i].result[1].changes) ELSE <<>>)
         \o TextsOfTasks(tasks, S, i + 1)

AllDone(p) ==
    /\ proc[p].pc = "chunking"
    /\ \A i \in 1..Len(proc[p].tasks) : proc[p].tasks[i].state = "done"

\* C18: a chunked comparison never ends in an exception once its tasks are
\* created; when every task has ended, failed or not, the merge builds a
\* valid DiffResponse; and the changes of the merged response are the changes
\* of the chunks that succeeded, all of them, in the order of the chunks.
C18_PartialFailure ==
    /\ \A p \in Procs : proc[p].tasks # <<>> => proc[p].pc # "raised"
    /\ \A p \in Procs : AllDone(p) =>
           DiffResponse_valid(
               merge_chunk_results(
                   [i \in 1..Len(proc[p].tasks) |-> proc[p].tasks[i].result[1]],
                   proc[p].original_chunks))
    /\ \A p \in Merged :
           SpanTextsOf(ResponseOf(p).changes)
               = TextsOfTasks(proc[p].tasks, Succeeded(p), 1)

\* A comparison of two chunks has returned the change of the second chunk
\* though the analysis of the first failed.
C18_Witness ==
    \E p \in Merged :
        /\ Len(proc[p].tasks) = 2
        /\ proc[p].tasks[1].failed
        /\ ~proc[p].tasks[2].failed
        /\ Len(proc[p].tasks[2].result[1].changes) = 1
        /\ Len(ResponseOf(p).changes) = 1

\* The request takes the chunked path and its texts split into different
\* numbers of chunks
UnevenChunks(request) ==
    /\ \/ Len(request.original_text) > CHUNK_THRESHOLD
       \/ Len(request.generated_text) > CHUNK_THRESHOLD
    /\ Len(split_into_chunks(request.original_text, max_chunk_size))
           # Len(split_into_chunks(request.generated_text, max_chunk_size))

\* C19: a comparison whose texts split into different numbers of chunks does
\* not end in an exception.
C19_UnevenChunksMerged ==
    \A p \in Procs :
        (proc[p].req # None /\ UnevenChunks(proc[p].req[1]))
            => proc[p].pc # "raised"

(***************************************************************************)
(* Properties of the retried oracle call                                   *)
(***************************************************************************)
\* One oracle call as a caller or a chunk task has it: the attempts made,
\* what the last ended attempt ended in, whether an attempt is in flight
OracleCalls ==
    {[attempts |-> proc[p].attempts, outcome |-> proc[p].outcome,
      in_flight |-> proc[p].pc = "calling"] : p \in Procs}
    \cup UNION {{[attempts |-> proc[p].tasks[i].attempts,
                  outcome |-> proc[p].tasks[i].outcome,
                  in_flight |-> proc[p].tasks[i].state = "calling"] :
                    i \in 1..Len(proc[p].tasks)} : p \in Procs}

\* C20: an oracle call makes at most 3 attempts; an attempt after the first
\* is made only when the attempt before it ended in APITimeoutError,
\* RateLimitError or APIError, never after a reply or another failure; a call
\* that ends in one of these three errors has made 3 attempts, and analyze_diff
\* raises for it what it raises for that error.
C20_AtMostThreeAttempts ==
    /\ \A c \in OracleCalls :
           /\ c.attempts <= 3
           /\ (c.in_flight /\ c.attempts = 1) => c.outcome = "none"
           /\ (c.in_flight /\ c.attempts > 1) => c.outcome \in RetriedErrors
           /\ (~c.in_flight /\ c.outcome \in RetriedErrors) => c.attempts = 3
    /\ \A p \in Procs :
           (proc[p].pc = "raised" /\ proc[p].outcome \in RetriedErrors) =>
               proc[p].result[1] = raised_for([kind |-> proc[p].outcome])

\* A call has raised after a third attempt that ended in a rate limit error.
C20_Witness ==
    \E p \in Procs :
        /\ proc[p].pc = "raised"
        /\ proc[p].attempts = 3
        /\ proc[p].calls = 3
        /\ proc[p].outcome = "RateLimitError"
        /\ proc[p].result[1].message = "Rate limit exceeded"

(***************************************************************************)
(* Properties of the failures of the single-call path                      *)
(***************************************************************************)
\* The oracle call of p ended in a reply that is empty, no JSON, or JSON that
\* does not validate, and analyze_diff has raised
ResponseInvalid(p) ==
    /\ proc[p].pc = "raised"
    /\ proc[p].outcome \in {"empty", "not_json", "json"}

\* C21: a call of analyze_diff that ends on an empty, unparsable or invalid
\* reply raises LLMResponseError, and one that ends on an error of the client
\* raises LLMAPIError.
C21_ResponseErrorKind ==
    \A p \in Procs :
        /\ ResponseInvalid(p) => proc[p].result[1].error = "LLMResponseError"
        /\ (proc[p].pc = "raised" /\ proc[p].outcome \in ClientErrors)
               => proc[p].result[1].error = "LLMAPIError"

(***************************************************************************)
(* Properties of the merge under concurrency                               *)
(***************************************************************************)
\* C22: whatever the order in which the oracle calls of the chunks ended,
\* the tasks are in ascending order of chunk index, the merged response is
\* the merge of their results taken in that order, and its changes are the
\* changes of the chunks in that order.
C22_MergeIgnoresCompletionOrder ==
    \A p \in Merged :
        /\ \A i \in 1..Len(proc[p].tasks), j \in 1..Len(proc[p].tasks) :
               i < j => proc[p].tasks[i].chunk_index < proc[p].tasks[j].chunk_index
        /\ ResponseOf(p)
               = merge_chunk_results(
                     [i \in 1..Len(proc[p].tasks) |-> proc[p].tasks[i].result[1]],
                     proc[p].original_chunks)
        /\ SpanTextsOf(ResponseOf(p).changes)
               = TextsOfTasks(proc[p].tasks, 1..Len(proc[p].tasks), 1)

\* The call of the second chunk ended before the call of the first, and the
\* merged response has the change of the second chunk at its offset.
C22_Witness ==
    \E p \in Merged :
        /\ proc[p].completed = <<2, 1>>
        /\ Len(ResponseOf(p).changes) = 1
        /\ ResponseOf(p).changes[1].original_span.start = 8

(***************************************************************************)
(* Properties of ChangeItem on its own (SpecChange)                        *)
(***************************************************************************)
\* C23: a change whose severity is, in any case and with white space around
\* it, one of minor, low, none, info validates with severity info; one of
\* moderate, medium, warning with warning; one of high, fatal, severe,
\* critical with critical; any other word with warning; the severity never
\* makes the validation fail.
C23_SeverityNormalized ==
    last.validated =>
        /\ last.is_valid = (upper(last.values.type) \in ChangeType)
        /\ last.is_valid =>
               last.item[1].severity
                   = (IF last.word \in {<<"m", "i", "n", "o", "r">>,
                                        <<"l", "o", "w">>,
                                        <<"n", "o", "n", "e">>,
                                        <<"i", "n", "f", "o">>}
                      THEN <<"i", "n", "f", "o">>
                      ELSE IF last.word \in {<<"h", "i", "g", "h">>,
                                             <<"f", "a", "t", "a", "l">>,
                                             <<"s", "e", "v", "e", "r", "e">>,
                                             <<"c", "r", "i", "t", "i", "c", "a", "l">>}
                      THEN <<"c", "r", "i", "t", "i", "c", "a", "l">>
                      ELSE <<"w", "a", "r", "n", "i", "n", "g">>)

\* 'Severe' has been validated as critical.
C23_Witness ==
    /\ last.validated
    /\ last.is_valid
    /\ last.values.severity = <<"S", "e", "v", "e", "r", "e">>
    /\ last.item[1].severity = CRITICAL

(***************************************************************************)
(* Properties of the cache under the tasks of one event loop (SpecTasks)   *)
(***************************************************************************)
\* C24: no task is ever suspended inside a method of the cache, so that no
\* method runs on a dict another method has left half-way; no del raises
\* KeyError; and between the steps of the tasks the dict is as a completed
\* method leaves it: one entry per key, at most max_size entries, each
\* expiring ttl_seconds after its creation.
C24_CacheMethodsAtomic ==
    /\ \A t \in CacheTasks :
           /\ proc[t].pc # "KeyError"
           /\ proc[t].awaited = 0
           /\ proc[t].expired_keys = {}
    /\ Len(cache) <= max_size
    /\ \A i \in 1..Len(cache), j \in 1..Len(cache) :
           cache[i].key = cache[j].key => i = j
    /\ \A i \in 1..Len(cache) :
           cache[i].expires_at = cache[i].created_at + ttl_seconds

\* One task is about to run a set that will clean up, the other a get of an
\* entry that has expired: both would delete the same entry.
C24_Witness ==
    \E t \in CacheTasks, u \in CacheTasks :
        /\ proc[t].pc = "calling" /\ proc[t].name = "set"
        /\ proc[u].pc = "calling" /\ proc[u].name = "get"
        /\ expired_keys_of(cache, max_size, now) # {}
        /\ KeyOf(proc[u].args) \in expired_keys_of(cache, max_size, now)

(***************************************************************************)
(* Further properties of the reconciler on its own (SpecSpan)              *)
(***************************************************************************)
\* The first call has been made on a span with offsets and a non-empty text
Reconciled ==
    /\ last.passes = 1
    /\ HasOffsets(last.claimed)
    /\ last.claimed.text # <<>>

\* Neither the claimed offsets nor the contexts locate the text
NotLocated ==
    /\ Slice(last.source_text, last.claimed.start, last.claimed.end)
           # last.claimed.text
    /\ \/ ~has_key(last.claimed, "context_before")
       \/ Len(last.claimed.context_before) + Len(last.claimed.context_after) = 0
       \/ Find(last.source_text, Fingerprint(last.claimed)) = -1

\* The places of the text that lie within source_text[start-50:end+50]
InWindow ==
    {i \in Occurrences(last.source_text, last.claimed.text) :
        /\ i >= last.claimed.start - 50
        /\ i + Len(last.claimed.text) <= last.claimed.end + 50}

\* C25: the call answers invalid exactly when the text occurs nowhere in the
\* source; and when neither offsets nor contexts nor the window locate the
\* text and it occurs, start and end are those of its first occurrence.
C25_FailsIffAbsent ==
    Reconciled =>
        /\ last.is_valid = (Occurrences(last.source_text, last.claimed.text) # {})
        /\ (/\ NotLocated
            /\ InWindow = {}
            /\ Occurrences(last.source_text, last.claimed.text) # {})
           => /\ last.corrected
              /\ \A i \in Occurrences(last.source_text, last.claimed.text) :
                     last.span.start <= i
              /\ last.span.start
                     \in Occurrences(last.source_text, last.claimed.text)
              /\ last.span.end = last.span.start + Len(last.claimed.text)

\* 'cat' claimed at [75:78] of 'the cat sat on the cat mat' without
\* contexts is at [4:7] after the call.
C25_Witness ==
    /\ Reconciled
    /\ NotLocated
    /\ InWindow = {}
    /\ last.source_text = cat_text
    /\ last.claimed.text = <<"c", "a", "t">>
    /\ last.claimed.start = 75
    /\ last.span.start = 4
    /\ last.span.end = 7

\* C26: when neither the claimed offsets nor the contexts locate the text
\* and the text occurs within source_text[start-50:end+50], the span is moved
\* to an occurrence within that window, also when the text occurs earlier
\* outside of it.
C26_ProximityWindow ==
    (Reconciled /\ NotLocated /\ InWindow # {}) =>
        /\ last.is_valid
        /\ last.corrected
        /\ last.span.start \in InWindow
        /\ last.span.start >= last.claimed.start - 50
        /\ last.span.start
               <= last.claimed.end + 50 - Len(last.claimed.text)
        /\ last.span.end = last.span.start + Len(last.claimed.text)
        /\ Slice(last.source_text, last.span.start, last.span.end)
               = last.claimed.text

\* 'cat' claimed at [75:78] of 'cat', 57 blanks, 'cat' is at [60:63] after
\* the call, not at [0:3].
C26_Witness ==
    /\ Reconciled
    /\ NotLocated
    /\ last.source_text = far_text
    /\ last.claimed.text = <<"c", "a", "t">>
    /\ last.claimed.start = 75
    /\ last.claimed.end = 78
    /\ 0 \in Occurrences(last.source_text, last.claimed.text)
    /\ last.span.start = 60
    /\ last.span.end = 63

(***************************************************************************)
(* Properties of the engine: spans that cannot be validated                *)
(***************************************************************************)
\* if not text or start is None or end is None
Unvalidatable(sp) == dict_get(sp, "text", <<>>) = <<>> \/ ~HasOffsets(sp)

\* Every span of the change either cannot be validated or is exact
OnlyOmissions(c, request) ==
    /\ \/ Unvalidatable(c.original_span)
       \/ SpanAccurate(c.original_span, request.original_text)
    /\ \/ Unvalidatable(c.generated_span)
       \/ SpanAccurate(c.generated_span, request.generated_text)

\* A reply with a valid summary and changes in which nothing is amiss but a
\* span with an empty text or without start or end
ReplyWithOmission(reply, request) ==
    /\ reply.kind = "json"
    /\ has_key(reply.data, "summary") /\ DiffSummary_valid(reply.data.summary)
    /\ has_key(reply.data, "changes")
    /\ \A i \in 1..Len(reply.data.changes) :
           OnlyOmissions(reply.data.changes[i], request)
    /\ \E i \in 1..Len(reply.data.changes) :
           \/ Unvalidatable(reply.data.changes[i].original_span)
           \/ Unvalidatable(reply.data.changes[i].generated_span)

\* C27: a reply in which a span has an empty text, or no start or no end,
\* comes to a response, and the response has every change of the reply.
C27_OmissionTolerated ==
    \A p \in Procs : proc[p].pc = "calling" =>
        \A reply \in OracleReplies(RequestOf(p).original_text,
                                   RequestOf(p).generated_text) :
            ReplyWithOmission(reply, RequestOf(p)) =>
                LET response == response_of(reply, RequestOf(p).original_text,
                                            RequestOf(p).generated_text)
                IN /\ response # None
                   /\ Len(response[1].changes) = Len(reply.data.changes)

(***************************************************************************)
(* Properties of the splitter on its own (SpecSplit)                       *)
(***************************************************************************)
Paragraphs(chunk) == split(chunk, <<"\n", "\n">>)

\* C28: a chunk of more than one paragraph is not longer than
\* max_chunk_size.
C28_ChunkWithinTarget ==
    last.returned =>
        \A i \in 1..Len(last.chunks) :
            Len(Paragraphs(last.chunks[i])) > 1
                => Len(last.chunks[i]) <= max_chunk_size

\* C29: the chunks joined with the separator are the text, and each chunk is
\* the text from the offset computed for it on.
C29_ChunksRejoin ==
    last.returned =>
        /\ join(<<"\n", "\n">>, last.chunks) = last.text
        /\ Len(last.offsets) = Len(last.chunks)
        /\ \A i \in 1..Len(last.chunks) :
               Slice(last.text, last.offsets[i],
                     last.offsets[i] + Len(last.chunks[i])) = last.chunks[i]

\* A text of three paragraphs has been split into three chunks.
C29_Witness ==
    /\ last.returned
    /\ Len(last.chunks) = 3
    /\ last.chunks[3] = <<"C", "C", "C", "C", "C">>
    /\ last.offsets[3] = Len(last.chunks[1]) + Len(last.chunks[2]) + 4
    /\ last.offsets[3] > 4

(***************************************************************************)
(* Properties of the engine: chunk pairs that are skipped                  *)
(***************************************************************************)
\* The comparison of p has a chunk pair for which no task was created
SkippedPair(p) == Len(proc[p].tasks) < Len(proc[p].original_chunks)

\* C30: in a merged response of a comparison with a skipped chunk pair, every
\* change a task returned is found with its spans moved by the base of the
\* chunk index of that task.
C30_ShiftByChunkIndex ==
    \A p \in Merged : SkippedPair(p) =>
        \A k \in 1..Len(proc[p].tasks) :
            \A j \in 1..Len(proc[p].tasks[k].result[1].changes) :
                \E m \in 1..Len(ResponseOf(p).changes) :
                    ResponseOf(p).changes[m]
                        = shift_change(
                              proc[p].tasks[k].result[1].changes[j],
                              ChunkBase(proc[p].original_chunks,
                                        proc[p].tasks[k].chunk_index))

(***************************************************************************)
(* Properties of the engine: generated spans of a merged response          *)
(***************************************************************************)
\* C31: in a merged response every generated_span with a text that is not
\* empty has generated_text[start:end] = text for the whole generated text of
\* the request.
C31_GeneratedSpanAccuracy ==
    \A p \in Merged :
        \A j \in 1..Len(ResponseOf(p).changes) :
            LET sp == ResponseOf(p).changes[j].generated_span
            IN sp.text # <<>>
                   => SpanAccurate(sp, RequestOf(p).generated_text)

(***************************************************************************)
(* Properties of the retried oracle call: the waits                        *)
(***************************************************************************)
\* The waits of the oracle calls of the callers and of the chunk tasks
WaitsOfCalls ==
    {proc[p].waits : p \in Procs}
    \cup UNION {{proc[p].tasks[i].waits : i \in 1..Len(proc[p].tasks)} :
                  p \in Procs}

\* C32: every wait between two attempts of an oracle call lies between 2 and
\* 10 seconds, and the wait before the third attempt is longer than the wait
\* before the second.
C32_BackoffGrows ==
    \A w \in WaitsOfCalls :
        /\ \A k \in 1..Len(w) : 2 <= w[k] /\ w[k] <= 10
        /\ Len(w) >= 2 => w[2] > w[1]

(***************************************************************************)
(* Properties of the engine: what is stored                                *)
(***************************************************************************)
\* The payloads stored under the key of the request
StoredFor(request) ==
    {cache[k].data : k \in {j \in 1..Len(cache) :
                                cache[j].key = KeyOf(ArgsOf(request))}}

\* C33: no entry holds a result built with the neutral response that stands
\* for a failed chunk: after a merge with a failed chunk task the merged
\* response is not stored under the key of the request.
C33_NoPlaceholderStored ==
    \A p \in Merged :
        (\E i \in 1..Len(proc[p].tasks) : proc[p].tasks[i].failed)
            => ResponseOf(p) \notin StoredFor(RequestOf(p))

(***************************************************************************)
(* Properties of the cache: payloads and the caller's dicts                *)
(***************************************************************************)
\* C34: what a get returns holds what was stored under the key by the last
\* set, whatever the caller did since to the dict it gave to set or to a
\* dict an earlier get returned.
C34_PayloadIsCopy ==
    (last.name = "get" /\ last.value # None) =>
        \E x \in written : x.args = last.args /\ x.data = last.payload[1]

(***************************************************************************)
(* Properties of the engine: stored chunk results and the merge            *)
(***************************************************************************)
\* The spans of the changes that have a text are where they say in a and b
ChangesAccurate(changes, a, b) ==
    \A j \in 1..Len(changes) :
        /\ changes[j].original_span.text # <<>>
               => SpanAccurate(changes[j].original_span, a)
        /\ changes[j].generated_span.text # <<>>
               => SpanAccurate(changes[j].generated_span, b)

\* Every result of the tasks of p was built from a cache entry
FromCache(p) ==
    /\ proc[p].tasks # <<>>
    /\ \A i \in 1..Len(proc[p].tasks) :
           proc[p].tasks[i].state = "done" /\ proc[p].tasks[i].attempts = 0

\* C35: an entry stored for a chunk pair keeps the chunk-local offsets it was
\* stored with, whatever was merged since: its spans are accurate in the
\* texts of the chunk pair; and a merge built from cache entries alone has
\* the base of each chunk added once: its spans are accurate in the texts of
\* the request.
C35_StoredChunksKeepLocalOffsets ==
    /\ \A p \in Procs : \A i \in 1..Len(proc[p].tasks) :
           \A k \in 1..Len(cache) :
               cache[k].key = generate_key(proc[p].tasks[i].original_text,
                                           proc[p].tasks[i].generated_text,
                                           proc[p].req[1].sensitivity)
                   => ChangesAccurate(cache[k].data.changes,
                                      proc[p].tasks[i].original_text,
                                      proc[p].tasks[i].generated_text)
    /\ \A p \in Merged :
           (FromCache(p) /\ RequestOf(p) = SwappedRequest)
               => ChangesAccurate(ResponseOf(p).changes,
                                  RequestOf(p).original_text,
                                  RequestOf(p).generated_text)

\* The comparison of the swapped texts has been merged from the two entries
\* the first comparison stored, after that one had moved the change of its
\* second chunk by 6: the change is returned at [2:3], and the entry of the
\* chunk pair still has it at [2:3].
C35_Witness ==
    \E p \in Merged :
        /\ FromCache(p)
        /\ RequestOf(p) = SwappedRequest
        /\ Len(ResponseOf(p).changes) = 1
        /\ ResponseOf(p).changes[1].generated_span.start = 2
        /\ \E x \in returned :
               /\ x.args = ArgsOf(LongRequest)
               /\ Len(x.result.changes) = 1
               /\ x.result.changes[1].generated_span.start = 8
        /\ \E k \in 1..Len(cache) :
               /\ cache[k].key = generate_key(BBBB, BBbB, medium)
               /\ cache[k].data.changes[1].generated_span.start = 2

(***************************************************************************)
(* Properties of the engine: callers with one request                      *)
(***************************************************************************)
\* The call of analyze_diff of p is in flight: it is past the cache lookup
\* and the similarity check and has not returned or raised
InFlight(p) == proc[p].pc \in {"calling", "gather", "chunking"}

\* C36: of two calls in flight at once with the same original_text,
\* generated_text and sensitivity, one at most has invoked the oracle.
C36_SingleFlight ==
    \A p, q \in Procs :
        (/\ p # q
         /\ InFlight(p)
         /\ InFlight(q)
         /\ ArgsOf(RequestOf(p)) = ArgsOf(RequestOf(q)))
            => (proc[p].calls = 0 \/ proc[q].calls = 0)

(***************************************************************************)
(* Properties of the engine: the two models                                *)
(***************************************************************************)
\* C37: a request answered from the cache gets an entry that holds an answer
\* of the model the request selects, or the result of the similarity
\* short-circuit, which no model has computed.
C37_ModelsKeptApart ==
    \A p \in Answered :
        PathOf(p) = "cache" =>
            proc[p].result[1].model \in {selected_model(RequestOf(p)), "none"}

(***************************************************************************)
(* Properties of the engine: which text pairs reach the oracle             *)
(***************************************************************************)
\* The text pairs an oracle attempt has been made for
PairsCalled ==
    {<<RequestOf(p).original_text, RequestOf(p).generated_text>> :
        p \in {q \in Procs : proc[q].attempts > 0}}
    \cup UNION {{<<proc[p].tasks[i].original_text,
                   proc[p].tasks[i].generated_text>> :
                     i \in {j \in 1..Len(proc[p].tasks) :
                               proc[p].tasks[j].attempts > 0}} : p \in Procs}

\* C38: no oracle attempt is made for a text pair whose similarity ratio
\* exceeds the short-circuit threshold, a pair of equal chunks in particular.
C38_NoCallForSimilarPair ==
    \A pair \in PairsCalled :
        /\ pair[1] # pair[2]
        /\ ~exceeds_threshold(ratio(pair[1], pair[2]))

(***************************************************************************)
(* Properties of the engine: termination                                   *)
(***************************************************************************)
\* C39: a call of analyze_diff makes at most 3 oracle attempts on the
\* single-call path and at most 3 per chunk task on the chunked path; the
\* merge is made only when every chunk task has ended; and every call in
\* flight returns or raises.
C39_Terminates ==
    /\ [](\A p \in Procs :
            /\ proc[p].attempts <= 3
            /\ proc[p].pc \in {"calling", "raised"} => proc[p].calls <= 3
            /\ \A i \in 1..Len(proc[p].tasks) : proc[p].tasks[i].attempts <= 3
            /\ proc[p].calls <= 3 * Max(1, Len(proc[p].tasks)))
    /\ [][\A p \in Procs :
            (proc[p].pc = "chunking" /\ proc'[p].pc = "done") =>
                \A i \in 1..Len(proc[p].tasks) :
                    proc[p].tasks[i].state = "done"]_vars
    /\ \A p \in Procs :
           InFlight(p) ~> proc[p].pc \in {"done", "raised"}

\* A chunked comparison has been merged after one of its oracle calls made
\* three attempts and failed and the other one made two.
C39_Witness ==
    \E p \in Merged :
        /\ proc[p].calls = 5
        /\ proc[p].tasks[1].attempts = 3
        /\ proc[p].tasks[1].failed
        /\ proc[p].tasks[2].attempts = 2
        /\ ~proc[p].tasks[2].failed

(***************************************************************************)
(* Properties of compare_texts                                             *)
(***************************************************************************)
\* C40: a comparison whose oracle call made its last attempt in vain is
\* answered with 504 when that attempt timed out, with 503 when it met the
\* rate limit, with 502 when it ended in another API error.
C40_TimeoutIsGatewayTimeout ==
    \A p \in Procs :
        proc[p].pc = "raised" =>
            /\ proc[p].outcome = "APITimeoutError"
                   => status_code(proc[p].result[1]) = 504
            /\ proc[p].outcome = "RateLimitError"
                   => status_code(proc[p].result[1]) = 503
            /\ proc[p].outcome = "APIError"
                   => status_code(proc[p].result[1]) = 502

====
